---- MODULE Spec2Model ----
(***************************************************************************)
(* A model of the binary stream subsystem of node-lib: BinaryReader        *)
(* (buffer and file-handle backends), BinaryWriter and StreamWriter.       *)
(*                                                                         *)
(* Representation.                                                         *)
(*  - A Buffer is a sequence of bytes (0..255), index 1 = JS index 0.      *)
(*  - A JS number holding an integer is a pair [hi, lo] standing for       *)
(*    hi * 65536 + lo with lo in 0..65535 (32-bit values do not fit the    *)
(*    model checker's integers).                                           *)
(*  - A JS string is a sequence of code points.                            *)
(*  - The runtime is Node.js >= 20 (package.json: @types/node ^22).        *)
(***************************************************************************)
EXTENDS Integers, Sequences, FiniteSets, TLC

VARIABLES
    obj,      \* which instance this behaviour follows
    reader,   \* BinaryReader fields: operator, buffer, length, offset, isClosed
    file,     \* the file behind a FileHandle: exists, data, position
    writer,   \* BinaryWriter.contents (a sequence of chunks)
    stream,   \* StreamWriter: state of the WriteStream, bytes written, _length
    out,      \* the last call: op, arg, status, value, before
    test      \* the driver of the round-trip and pure-function specifications

vars == <<obj, reader, file, writer, stream, out, test>>

(***************************************************************************)
(* Bounds of the model                                                     *)
(***************************************************************************)
MaxLen == 4        \* longest buffer / file content
MaxOffset == 8     \* cap on the reader's cursor
MaxBack == 1       \* cap on how far below 0 the cursor goes
MaxSeek == 210     \* cap on the cursor when seek() is followed alone
MaxItems == 3      \* values written before a BinaryWriter is read back
MaxWrites == 2     \* write calls made on a writer
MaxCloses == 2     \* close() calls that reach the WriteStream
MaxToBuffers == 3  \* toBuffer() calls made on a BinaryWriter

\* bytes the contents are drawn from: NUL and 0xC3, which is 'C' once its high
\* bit is dropped (ascii), U+00C3 in latin1, an incomplete sequence in utf8 and
\* negative as a signed byte
ByteAlphabet == {0, 195}

\* size of the buffer FileHandle.read allocates when none is given
DefaultReadBufferSize == 16384

(***************************************************************************)
(* Sequences                                                               *)
(***************************************************************************)
Min(a, b) == IF a < b THEN a ELSE b
Max(a, b) == IF a > b THEN a ELSE b

Zeros(n) == [i \in 1..n |-> 0]

RECURSIVE SeqsUpTo(_, _)
SeqsUpTo(S, n) ==
    IF n = 0 THEN {<<>>}
    ELSE LET shorter == SeqsUpTo(S, n - 1)
         IN shorter \cup {Append(s, x) : s \in {t \in shorter : Len(t) = n - 1}, x \in S}

RECURSIVE Flatten(_)
Flatten(chunks) ==
    IF chunks = <<>> THEN <<>> ELSE Head(chunks) \o Flatten(Tail(chunks))

(***************************************************************************)
(* JS numbers as [hi, lo]                                                  *)
(***************************************************************************)
WNorm(hi, lo) == [hi |-> hi + (lo \div 65536), lo |-> lo % 65536]
W(n) == WNorm(0, n)
WLess(a, b) == a.hi < b.hi \/ (a.hi = b.hi /\ a.lo < b.lo)
WAdd(a, b) == WNorm(a.hi + b.hi, a.lo + b.lo)
WSub(a, b) == WNorm(a.hi - b.hi, a.lo - b.lo)
\* 2^bits for bits in {7, 8, 15, 16, 23, 24, 31, 32}
WPow2(bits) ==
    IF bits < 16 THEN W(2 ^ bits) ELSE [hi |-> 2 ^ (bits - 16), lo |-> 0]

(***************************************************************************)
(* node:buffer                                                             *)
(***************************************************************************)
\* Buffer.prototype.subarray(start, end): negative indices count from the end,
\* both are clamped to 0..length, and an end before the start gives no bytes.
Subarray(buf, start, end) ==
    LET n == Len(buf)
        clamp(i) == IF i < 0 THEN Max(n + i, 0) ELSE Min(i, n)
        s == clamp(start)
        e == clamp(end)
    IN IF e <= s THEN <<>> ELSE SubSeq(buf, s + 1, e)

\* buf.readUIntLE(0, n) / readUInt8 / readUInt16LE / readUInt32LE
ReadUIntLE(b) ==
    LET at(i) == IF i <= Len(b) THEN b[i] ELSE 0
    IN [hi |-> at(3) + 256 * at(4), lo |-> at(1) + 256 * at(2)]

Reverse(s) == [i \in 1..Len(s) |-> s[Len(s) + 1 - i]]

\* buf.readUIntBE(0, n) / readUInt16BE / readUInt32BE
ReadUIntBE(b) == ReadUIntLE(Reverse(b))

\* two's complement reading of an unsigned value of the given byte width
ToSigned(u, width) ==
    IF WLess(u, WPow2(8 * width - 1)) THEN u ELSE WSub(u, WPow2(8 * width))

\* buf.readIntLE(0, n) / readInt8 / readInt16LE / readInt32LE
ReadIntLE(b) == ToSigned(ReadUIntLE(b), Len(b))
\* buf.readIntBE(0, n) / readInt16BE / readInt32BE
ReadIntBE(b) == ToSigned(ReadUIntBE(b), Len(b))

\* the raw bytes of a float, a double or a 64-bit integer, tagged by the
\* decoder applied to them (the numeric value is not modelled)
RawLE(b) == [raw |-> b, order |-> "LE"]
RawBE(b) == [raw |-> b, order |-> "BE"]

\* buf.writeUIntLE(value, 0, n) and buf.writeIntLE(value, 0, n) of an in-range value
WriteIntLE(v, width) ==
    LET all == <<v.lo % 256, v.lo \div 256, v.hi % 256, (v.hi \div 256) % 256>>
    IN SubSeq(all, 1, width)
\* buf.writeUIntBE(value, 0, n) and buf.writeIntBE(value, 0, n) of an in-range value
WriteIntBE(v, width) == Reverse(WriteIntLE(v, width))

(***************************************************************************)
(* Text: buf.toString(encoding) and String.prototype.replace               *)
(***************************************************************************)
IsCont(b) == b >= 128 /\ b <= 191

\* UTF-8 decoding with U+FFFD replacement of maximal invalid subparts, for
\* one-, two- and three-byte sequences (bytes 0xF0 and above are not drawn).
RECURSIVE Utf8Decode(_)
Utf8Decode(b) ==
    IF b = <<>> THEN <<>>
    ELSE LET b1 == b[1]
             n == Len(b)
             lo2 == IF b1 = 224 THEN 160 ELSE 128
             hi2 == IF b1 = 237 THEN 159 ELSE 191
         IN IF b1 < 128 THEN <<b1>> \o Utf8Decode(Tail(b))
            ELSE IF b1 >= 194 /\ b1 <= 223 /\ n >= 2 /\ IsCont(b[2])
                 THEN <<(b1 % 32) * 64 + (b[2] % 64)>> \o Utf8Decode(SubSeq(b, 3, n))
            ELSE IF b1 >= 224 /\ b1 <= 239 /\ n >= 2 /\ b[2] >= lo2 /\ b[2] <= hi2
                 THEN IF n >= 3 /\ IsCont(b[3])
                      THEN <<(b1 % 16) * 4096 + (b[2] % 64) * 64 + (b[3] % 64)>>
                               \o Utf8Decode(SubSeq(b, 4, n))
                      ELSE <<65533>> \o Utf8Decode(SubSeq(b, 3, n))
            ELSE <<65533>> \o Utf8Decode(Tail(b))

HexDigit(d, uppercased) ==
    IF d < 10 THEN 48 + d ELSE IF uppercased THEN 55 + d ELSE 87 + d

RECURSIVE HexString(_, _)
HexString(b, uppercased) ==
    IF b = <<>> THEN <<>>
    ELSE <<HexDigit(b[1] \div 16, uppercased), HexDigit(b[1] % 16, uppercased)>>
             \o HexString(Tail(b), uppercased)

\* buf.toString(enc)
BufToString(b, enc) ==
    CASE enc = "ascii" -> [i \in 1..Len(b) |-> b[i] % 128]
      [] enc = "latin1" -> b
      [] enc = "hex" -> HexString(b, FALSE)
      [] OTHER -> Utf8Decode(b)

\* str.replace(new RegExp(`\x00`, 'g'), '')
ReplaceAllNul(s) == SelectSeq(s, LAMBDA c : c # 0)

\* str.replace(`\x00`, ''): a string pattern replaces the first match only
RECURSIVE ReplaceFirstNul(_)
ReplaceFirstNul(s) ==
    IF s = <<>> THEN <<>>
    ELSE IF Head(s) = 0 THEN Tail(s)
    ELSE <<Head(s)>> \o ReplaceFirstNul(Tail(s))

\* a string value: `text` followed by the decoding of `zeroTail` zero bytes
Str(text, zeroTail) == [text |-> text, zeroTail |-> zeroTail]

NoValue == [none |-> TRUE]

(***************************************************************************)
(* node:fs/promises FileHandle.read                                        *)
(***************************************************************************)
\* handle.read({ buffer: Buffer.alloc(n), position, length: n }): the buffer
\* after the call.  A length of 0 returns at once; a position below -1 is
\* rejected; position -1 reads at the handle's own position and advances it;
\* bytes past the end of the file are left zero.
FileHandleRead(f, n, position) ==
    IF n < 0 THEN [ok |-> FALSE, buffer |-> <<>>, file |-> f]
    ELSE IF n = 0 THEN [ok |-> TRUE, buffer |-> <<>>, file |-> f]
    ELSE IF position < -1 THEN [ok |-> FALSE, buffer |-> <<>>, file |-> f]
    ELSE LET from == IF position = -1 THEN f.position ELSE position
             got == Subarray(f.data, Min(from, Len(f.data)), Min(from + n, Len(f.data)))
         IN [ok |-> TRUE,
             buffer |-> got \o Zeros(n - Len(got)),
             file |-> IF position = -1
                      THEN [f EXCEPT !.position = @ + Len(got)] ELSE f]

(***************************************************************************)
(* BinaryReader                                                            *)
(***************************************************************************)
\* the result of a call: the fields after it, how it ended, what it returned
Res(r, f, status, value) == [reader |-> r, file |-> f, status |-> status, value |-> value]

\* new BinaryReader(null, buffer) / BinaryReader.fromBuffer(buffer)
fromBuffer(buffer) ==
    [operator |-> "buffer", buffer |-> buffer, length |-> Len(buffer),
     offset |-> 0, isClosed |-> FALSE]

\* new BinaryReader(path, handle) / BinaryReader.fromFile(path)
fromFile(f) ==
    [operator |-> "fileHandle", buffer |-> <<>>, length |-> Len(f.data),
     offset |-> 0, isClosed |-> FALSE]

checkExistenceThrows_Never(r, f) == FALSE
\* _checkExistence() throws
checkExistenceThrows(r, f) == r.operator = "fileHandle" /\ ~f.exists
checkIfFileHandleIsClosedThrows_Handle(r) == r.isClosed /\ r.operator = "fileHandle"
\* _checkIfFileHandleIsClosed() throws
checkIfFileHandleIsClosedThrows(r) == r.isClosed

\* the two checks every read method starts with, in the order of the code
Checked(r, f, body) ==
    IF checkExistenceThrows(r, f) THEN Res(r, f, "notfound", NoValue)
    ELSE IF checkIfFileHandleIsClosedThrows(r) THEN Res(r, f, "closed", NoValue)
    ELSE body

close_Release(r, f) ==
    LET f1 == IF r.operator = "fileHandle" THEN [f EXCEPT !.handleCloses = @ + 1] ELSE f
    IN Res([r EXCEPT !.isClosed = TRUE], f1, "ok", NoValue)
close_Toggle(r, f) ==
    Res([r EXCEPT !.isClosed = ~@], f, "ok", NoValue)
close(r, f) ==
    LET r1 == IF ~r.isClosed /\ r.operator = "buffer" THEN [r EXCEPT !.buffer = <<>>] ELSE r
        f1 == IF ~r.isClosed /\ r.operator = "fileHandle"
              THEN [f EXCEPT !.handleCloses = @ + 1] ELSE f
    IN Res([r1 EXCEPT !.isClosed = TRUE], f1, "ok", NoValue)

Bytes(b) == b
TextOf(b, enc) == Str(ReplaceAllNul(BufToString(b, enc)), 0)
HexOf(b, prefix, uppercased) ==
    Str((IF prefix THEN <<48, 120>> ELSE <<>>) \o HexString(b, uppercased), 0)

\* the conversions the range reads apply to the bytes read
AsBytes == [kind |-> "bytes", enc |-> "", prefix |-> FALSE, uppercased |-> FALSE]
AsText(enc) == [kind |-> "text", enc |-> enc, prefix |-> FALSE, uppercased |-> FALSE]
AsTextFirstNul(enc) == [kind |-> "textFirstNul", enc |-> enc, prefix |-> FALSE, uppercased |-> FALSE]
AsHex(prefix, uppercased) == [kind |-> "hex", enc |-> "hex", prefix |-> prefix, uppercased |-> uppercased]
Convert(conv, b) ==
    CASE conv.kind = "bytes" -> Bytes(b)
      [] conv.kind = "text" -> TextOf(b, conv.enc)
      [] conv.kind = "textFirstNul" -> Str(ReplaceFirstNul(BufToString(b, conv.enc)), 0)
      [] conv.kind = "hex" -> HexOf(b, conv.prefix, conv.uppercased)

\* the body shared by read, readASCII, readLatin1, readUTF8, readHex and the
\* counted and 'remaining' branches of readString.  countedOnHandle is the
\* test the file-handle branch makes to take the counted path; conv names the
\* conversion of the bytes read into the value returned on the buffer and
\* counted paths, convRest the one of the file-handle 'remaining' path.
ReadRange(r, f, hasCount, allocSize, countedOnHandle, conv, convRest) ==
    Checked(r, f,
      IF r.operator = "buffer" THEN
          IF hasCount
          THEN Res([r EXCEPT !.offset = @ + allocSize], f, "ok",
                   Convert(conv, Subarray(r.buffer, r.offset, r.offset + allocSize)))
          ELSE Res([r EXCEPT !.offset = 0], f, "ok",
                   Convert(conv, Subarray(r.buffer, r.offset, Len(r.buffer))))
      ELSE IF countedOnHandle
      THEN LET rd == FileHandleRead(f, allocSize, r.offset)
           IN IF rd.ok
              THEN Res([r EXCEPT !.offset = @ + allocSize], rd.file, "ok", Convert(conv, rd.buffer))
              ELSE Res(r, f, "range", NoValue)
      ELSE LET rest == r.length - r.offset
               rd == FileHandleRead(f, rest, r.offset)
           IN IF rd.ok
              THEN Res([r EXCEPT !.offset = 0], rd.file, "ok", Convert(convRest, rd.buffer))
              ELSE Res(r, f, "range", NoValue))

\* hasCount: allocSize !== undefined;  truthy: if (allocSize)
read(r, f, hasCount, allocSize) ==
    ReadRange(r, f, hasCount, allocSize, hasCount, AsBytes, AsBytes)

readASCII(r, f, hasCount, allocSize) ==
    ReadRange(r, f, hasCount, allocSize, hasCount, AsText("ascii"), AsText("ascii"))

readLatin1(r, f, hasCount, allocSize) ==
    ReadRange(r, f, hasCount, allocSize, hasCount /\ allocSize # 0,
              AsText("latin1"), AsText("latin1"))

readUTF8(r, f, hasCount, allocSize) ==
    ReadRange(r, f, hasCount, allocSize, hasCount /\ allocSize # 0,
              AsText("utf8"), AsText("utf8"))

readHex(r, f, hasCount, allocSize, prefix, uppercased) ==
    ReadRange(r, f, hasCount, allocSize, hasCount /\ allocSize # 0,
              AsHex(prefix, uppercased), AsHex(prefix, uppercased))

padding(r, f, allocSize) ==
    Res([r EXCEPT !.offset = @ + allocSize], f, "ok", NoValue)

seek_Modulo(r, f, offset, method) ==
    LET target == CASE method = "start" -> offset
                    [] method = "current" -> r.offset + offset
                    [] OTHER -> r.length + offset
    IN Res([r EXCEPT !.offset = IF target > r.length /\ r.length > 0
                                 THEN target % r.length ELSE target],
           f, "ok", NoValue)
seek(r, f, offset, method) ==
    LET target == CASE method = "start" -> offset
                    [] method = "current" -> r.offset + offset
                    [] OTHER -> r.length + offset
    IN Res([r EXCEPT !.offset = IF target > r.length THEN target - r.length ELSE target],
           f, "ok", NoValue)

\* Boolean(buffer.readUInt8())
BoolOf(b) == b[1] # 0

\* the Buffer read method named by dec, applied to the bytes b
Decode(dec, b) ==
    CASE dec = "UIntLE" -> ReadUIntLE(b)
      [] dec = "UIntBE" -> ReadUIntBE(b)
      [] dec = "IntLE" -> ReadIntLE(b)
      [] dec = "IntBE" -> ReadIntBE(b)
      [] dec = "RawLE" -> RawLE(b)
      [] dec = "RawBE" -> RawBE(b)
      [] dec = "Bool" -> BoolOf(b)

\* the body shared by the fixed-width reads: decBuffer names the Buffer method
\* the buffer branch applies, decHandle the one the file-handle branch applies
ReadFixed(r, f, width, decBuffer, decHandle) ==
    Checked(r, f,
      IF r.operator = "buffer" THEN
          LET b == Subarray(r.buffer, r.offset, r.offset + width)
              r1 == [r EXCEPT !.offset = @ + width]
          IN IF Len(b) < width THEN Res(r1, f, "range", NoValue)
             ELSE Res(r1, f, "ok", Decode(decBuffer, b))
      ELSE LET rd == FileHandleRead(f, width, r.offset)
           IN IF rd.ok
              THEN Res([r EXCEPT !.offset = @ + width], rd.file, "ok", Decode(decHandle, rd.buffer))
              ELSE Res(r, f, "range", NoValue))

readUInt8(r, f) == ReadFixed(r, f, 1, "UIntLE", "UIntLE")
readUInt16LE(r, f) == ReadFixed(r, f, 2, "UIntLE", "UIntLE")
readUInt16BE(r, f) == ReadFixed(r, f, 2, "UIntBE", "UIntBE")
readUInt24LE(r, f) == ReadFixed(r, f, 3, "UIntLE", "UIntLE")
readUInt24BE(r, f) == ReadFixed(r, f, 3, "UIntBE", "UIntBE")
readUInt32LE(r, f) == ReadFixed(r, f, 4, "UIntLE", "UIntLE")
readUInt32BE(r, f) == ReadFixed(r, f, 4, "UIntBE", "UIntBE")
readInt8(r, f) == ReadFixed(r, f, 1, "IntLE", "IntLE")
readInt16LE(r, f) == ReadFixed(r, f, 2, "IntLE", "IntLE")
readInt16BE(r, f) == ReadFixed(r, f, 2, "UIntBE", "IntBE")
readInt24LE(r, f) == ReadFixed(r, f, 3, "IntLE", "IntLE")
readInt24BE(r, f) == ReadFixed(r, f, 3, "UIntBE", "IntBE")
readInt32LE(r, f) == ReadFixed(r, f, 4, "UIntLE", "IntLE")
readInt32BE(r, f) == ReadFixed(r, f, 4, "UIntBE", "IntBE")
readFloatLE(r, f) == ReadFixed(r, f, 4, "RawLE", "RawLE")
readFloatBE(r, f) == ReadFixed(r, f, 4, "RawBE", "RawBE")
readDoubleLE(r, f) == ReadFixed(r, f, 8, "RawLE", "RawLE")
readDoubleBE(r, f) == ReadFixed(r, f, 8, "RawBE", "RawBE")
readUInt64LE(r, f) == ReadFixed(r, f, 8, "RawLE", "RawLE")
readUInt64BE(r, f) == ReadFixed(r, f, 8, "RawBE", "RawBE")
readInt64LE(r, f) == ReadFixed(r, f, 8, "RawLE", "RawLE")
readInt64BE(r, f) == ReadFixed(r, f, 8, "RawBE", "RawBE")
readBooleanFromByte(r, f) == ReadFixed(r, f, 1, "Bool", "Bool")

BitsOf_LsbFirst(b) ==
    LET byte == IF b = <<>> THEN 0 ELSE b[1]
    IN [k \in 1..8 |-> (byte \div (2 ^ (k - 1))) % 2]

\* (byte >> i) & 1 for i = 7..0; a missing byte (undefined) gives zeros
BitsOf(b) ==
    LET byte == IF b = <<>> THEN 0 ELSE b[1]
    IN [k \in 1..8 |-> (byte \div (2 ^ (8 - k))) % 2]

\* the body shared by readByteAsBitArray and readByteAsBooleanArray
BitsAs(asBooleans, bits) ==
    IF asBooleans THEN [k \in 1..8 |-> bits[k] # 0] ELSE bits

ReadBits(r, f, asBooleans) ==
    Checked(r, f,
      IF r.operator = "buffer" THEN
          Res([r EXCEPT !.offset = @ + 1], f, "ok",
              BitsAs(asBooleans, BitsOf(Subarray(r.buffer, r.offset, r.offset + 1))))
      ELSE LET rd == FileHandleRead(f, 1, r.offset)
           IN IF rd.ok
              THEN Res([r EXCEPT !.offset = @ + 1], rd.file, "ok", BitsAs(asBooleans, BitsOf(rd.buffer)))
              ELSE Res(r, f, "range", NoValue))

readByteAsBitArray(r, f) == ReadBits(r, f, FALSE)

readByteAsBooleanArray(r, f) == ReadBits(r, f, TRUE)

\* bits.join('')
readBitString(r, f) ==
    LET res == readByteAsBitArray(r, f)
    IN IF res.status = "ok"
       THEN [res EXCEPT !.value = Str([k \in 1..8 |-> 48 + res.value[k]], 0)]
       ELSE res

\* readString(null) on a Buffer: the do/while loop, one byte per turn.  A turn
\* past the end reads no byte (buffer[0] is undefined, which is not 0x0), so
\* from there on the loop never ends.
RECURSIVE SentinelBuffer(_, _, _)
SentinelBuffer(buf, offset, acc) ==
    LET buffer == Subarray(buf, offset, offset + 1)
    IN IF buffer = <<>>
       THEN IF offset >= Len(buf)
            THEN [ends |-> FALSE, offset |-> offset, bytes |-> acc, zeroTail |-> 0]
            ELSE SentinelBuffer(buf, offset + 1, acc)
       ELSE IF buffer[1] = 0
            THEN [ends |-> TRUE, ok |-> TRUE, offset |-> offset + 1, bytes |-> acc,
                  zeroTail |-> 0, file |-> <<>>]
            ELSE SentinelBuffer(buf, offset + 1, acc \o buffer)

\* readString(null) on a FileHandle: each turn calls
\* handle.read({ offset: this.offset, length: 1 }).  No buffer and no position
\* are given, so Node allocates DefaultReadBufferSize zero bytes, reads one
\* byte at the handle's own position into index `offset` of that buffer, and
\* the loop then tests index 0 and appends the whole buffer to the result.
RECURSIVE SentinelHandle(_, _, _, _)
SentinelHandle(f, offset, acc, zeroTail) ==
    IF offset < 0 \/ offset > DefaultReadBufferSize - 1
    THEN [ends |-> TRUE, ok |-> FALSE, offset |-> offset, bytes |-> acc,
          zeroTail |-> zeroTail, file |-> f]
    ELSE LET got == Subarray(f.data, f.position, f.position + 1)
             f1 == [f EXCEPT !.position = @ + Len(got)]
             first == IF offset = 0 /\ got # <<>> THEN got[1] ELSE 0
         IN IF first = 0
            THEN [ends |-> TRUE, ok |-> TRUE, offset |-> offset + 1, bytes |-> acc,
                  zeroTail |-> zeroTail, file |-> f1]
            ELSE SentinelHandle(f1, offset + 1, acc \o Zeros(zeroTail) \o <<first>>,
                                DefaultReadBufferSize - 1)

\* mode: "count" (typeof allocSize === 'number'), "null" (allocSize === null)
\* or "rest" (undefined)
readString(r, f, mode, allocSize, encoding) ==
    LET enc == IF encoding = "latin-1" THEN "latin1" ELSE encoding
    IN IF mode # "null"
       THEN ReadRange(r, f, mode = "count", allocSize, mode = "count",
                      AsText(enc), AsTextFirstNul(enc))
       ELSE Checked(r, f,
              LET loop == IF r.operator = "buffer"
                          THEN SentinelBuffer(r.buffer, r.offset, <<>>)
                          ELSE SentinelHandle(f, r.offset, <<>>, 0)
              IN IF ~loop.ends THEN Res(r, f, "diverges", NoValue)
                 ELSE IF ~loop.ok
                 THEN Res([r EXCEPT !.offset = loop.offset], loop.file, "range", NoValue)
                 ELSE Res([r EXCEPT !.offset = loop.offset],
                          IF r.operator = "buffer" THEN f ELSE loop.file, "ok",
                          Str(BufToString(loop.bytes, enc), loop.zeroTail)))

(***************************************************************************)
(* BinaryWriter and StreamWriter: the fixed-width integer writes           *)
(***************************************************************************)
IntPrims ==
    {"UInt8", "UInt16LE", "UInt16BE", "UInt24LE", "UInt24BE", "UInt32LE", "UInt32BE",
     "Int8", "Int16LE", "Int16BE", "Int24LE", "Int24BE", "Int32LE", "Int32BE"}

\* Buffer.alloc(n) of each integer write
IntWidth(prim) ==
    CASE prim \in {"UInt8", "Int8"} -> 1
      [] prim \in {"UInt16LE", "UInt16BE", "Int16LE", "Int16BE"} -> 2
      [] prim \in {"UInt24LE", "UInt24BE", "Int24LE", "Int24BE"} -> 3
      [] OTHER -> 4

\* the Buffer method of each integer write: writeUIntLE/BE or writeIntLE/BE
IntSigned(prim) ==
    prim \in {"Int8", "Int16LE", "Int16BE", "Int24LE", "Int24BE", "Int32LE", "Int32BE"}
IntBigEndian(prim) ==
    prim \in {"UInt16BE", "UInt24BE", "UInt32BE", "Int16BE", "Int24BE", "Int32BE"}

\* the bounds each BinaryWriter method tests its value against
BinaryWriterRange(prim) ==
    CASE prim = "UInt8" -> [lo |-> W(0), hi |-> W(255)]
      [] prim = "UInt16LE" -> [lo |-> W(0), hi |-> W(65535)]
      [] prim = "UInt16BE" -> [lo |-> W(0), hi |-> W(65535)]
      [] prim = "UInt24LE" -> [lo |-> W(0), hi |-> W(16777215)]
      [] prim = "UInt24BE" -> [lo |-> W(0), hi |-> W(16777215)]
      [] prim = "UInt32LE" -> [lo |-> W(0), hi |-> [hi |-> 65535, lo |-> 65535]]
      [] prim = "UInt32BE" -> [lo |-> W(0), hi |-> [hi |-> 65535, lo |-> 65535]]
      [] prim = "Int8" -> [lo |-> W(-128), hi |-> W(127)]
      [] prim = "Int16LE" -> [lo |-> W(-32768), hi |-> W(32767)]
      [] prim = "Int16BE" -> [lo |-> W(-32768), hi |-> W(32767)]
      [] prim = "Int24LE" -> [lo |-> W(-8388608), hi |-> W(8388607)]
      [] prim = "Int24BE" -> [lo |-> W(-8388608), hi |-> W(8388607)]
      [] prim = "Int32LE" -> [lo |-> [hi |-> -32768, lo |-> 0], hi |-> [hi |-> 32767, lo |-> 65535]]
      [] prim = "Int32BE" -> [lo |-> [hi |-> -32768, lo |-> 0], hi |-> [hi |-> 32767, lo |-> 65535]]

StreamWriterRange_Int8(prim) ==
    IF prim = "Int8" THEN [lo |-> W(-129), hi |-> W(127)] ELSE BinaryWriterRange(prim)
\* the bounds each StreamWriter method tests its value against
StreamWriterRange(prim) ==
    CASE prim = "UInt8" -> [lo |-> W(0), hi |-> W(255)]
      [] prim = "UInt16LE" -> [lo |-> W(0), hi |-> W(65535)]
      [] prim = "UInt16BE" -> [lo |-> W(0), hi |-> W(65535)]
      [] prim = "UInt24LE" -> [lo |-> W(0), hi |-> W(16777215)]
      [] prim = "UInt24BE" -> [lo |-> W(0), hi |-> W(16777215)]
      [] prim = "UInt32LE" -> [lo |-> W(0), hi |-> [hi |-> 65535, lo |-> 65535]]
      [] prim = "UInt32BE" -> [lo |-> W(0), hi |-> [hi |-> 65535, lo |-> 65535]]
      [] prim = "Int8" -> [lo |-> W(-128), hi |-> W(127)]
      [] prim = "Int16LE" -> [lo |-> W(-32768), hi |-> W(32767)]
      [] prim = "Int16BE" -> [lo |-> W(-32768), hi |-> W(32767)]
      [] prim = "Int24LE" -> [lo |-> W(-8388608), hi |-> W(8388607)]
      [] prim = "Int24BE" -> [lo |-> W(-8388608), hi |-> W(8388607)]
      [] prim = "Int32LE" -> [lo |-> [hi |-> -32768, lo |-> 0], hi |-> [hi |-> 32767, lo |-> 65535]]
      [] prim = "Int32BE" -> [lo |-> [hi |-> -32768, lo |-> 0], hi |-> [hi |-> 32767, lo |-> 65535]]

\* value < lo || value > hi
OutOfRange(value, range) == WLess(value, range.lo) \/ WLess(range.hi, value)

\* the range node:buffer itself enforces in writeUIntLE/BE and writeIntLE/BE
NodeRange(prim) ==
    IF IntSigned(prim)
    THEN [lo |-> WSub(W(0), WPow2(8 * IntWidth(prim) - 1)),
          hi |-> WSub(WPow2(8 * IntWidth(prim) - 1), W(1))]
    ELSE [lo |-> W(0), hi |-> WSub(WPow2(8 * IntWidth(prim)), W(1))]

\* buf.writeUIntLE / writeUIntBE / writeIntLE / writeIntBE (value, 0, width)
EncodeInt(prim, value) ==
    IF IntBigEndian(prim) THEN WriteIntBE(value, IntWidth(prim))
    ELSE WriteIntLE(value, IntWidth(prim))

\* BinaryWriter.writeUInt8 .. writeInt32BE: contents is this.contents
writeInteger_AppendThenCheck(contents, prim, value) ==
    IF OutOfRange(value, BinaryWriterRange(prim))
    THEN [contents |-> Append(contents, <<0>>), status |-> "range"]
    ELSE [contents |-> Append(contents, EncodeInt(prim, value)), status |-> "ok"]

writeInteger(contents, prim, value) ==
    IF OutOfRange(value, BinaryWriterRange(prim))
    THEN [contents |-> contents, status |-> "range"]
    ELSE IF OutOfRange(value, NodeRange(prim))
    THEN [contents |-> contents, status |-> "node-range"]
    ELSE [contents |-> Append(contents, EncodeInt(prim, value)), status |-> "ok"]

\* buf.write(value, 'ascii') and Buffer.from(value, 'ascii'): one byte per
\* character, its code taken modulo 256
AsciiBytes(value) == [i \in 1..Len(value) |-> value[i] % 256]

\* BinaryWriter.writeASCII(value, allocSize): allocSize 0 stands for an
\* allocSize that is undefined or 0, which the method does not tell apart
writeASCII(contents, value, allocSize) ==
    IF allocSize # 0
    THEN Append(contents,
                SubSeq(AsciiBytes(value), 1, Min(Len(value), allocSize))
                    \o Zeros(allocSize - Min(Len(value), allocSize)))
    ELSE Append(contents, AsciiBytes(value))

\* BinaryWriter.writePadding(paddingSize, fill)
writePadding(contents, paddingSize, fill) ==
    Append(contents, [i \in 1..paddingSize |-> fill % 256])

\* Buffer.from(value, 'utf8'): the UTF-8 bytes of a code point below 2048
Utf8Char(c) == IF c < 128 THEN <<c>> ELSE <<192 + (c \div 64), 128 + (c % 64)>>

RECURSIVE Utf8Bytes(_)
Utf8Bytes(value) ==
    IF value = <<>> THEN <<>> ELSE Utf8Char(Head(value)) \o Utf8Bytes(Tail(value))

\* buf.write(value, 'utf8') into `room` bytes: whole characters only
RECURSIVE Utf8Fit(_, _)
Utf8Fit(value, room) ==
    IF value = <<>> \/ Len(Utf8Char(Head(value))) > room THEN <<>>
    ELSE Utf8Char(Head(value)) \o Utf8Fit(Tail(value), room - Len(Utf8Char(Head(value))))

\* /[0-9a-fA-F]/ and the value of the digit
IsHexChar(c) == (c >= 48 /\ c <= 57) \/ (c >= 65 /\ c <= 70) \/ (c >= 97 /\ c <= 102)
HexCharValue(c) == IF c <= 57 THEN c - 48 ELSE IF c <= 70 THEN c - 55 ELSE c - 87

\* isHexString / HexStr.isHexString: /^(0x)?[0-9a-fA-F]+$/
isHexString(str) ==
    LET digits == IF Len(str) >= 2 /\ str[1] = 48 /\ str[2] = 120
                  THEN SubSeq(str, 3, Len(str)) ELSE str
        plain(t) == t # <<>> /\ \A i \in 1..Len(t) : IsHexChar(t[i])
    IN plain(digits) \/ plain(str)

\* c.toLowerCase() of one character
LowerCase(c) == IF c >= 65 /\ c <= 90 THEN c + 32 ELSE c

\* .replace(/^0+/, '')
RECURSIVE StripLeadingZeros(_)
StripLeadingZeros(t) ==
    IF t # <<>> /\ t[1] = 48 THEN StripLeadingZeros(Tail(t)) ELSE t

\* padHexToLength(hexString, 1, false) of a valid hex string
padHexToLength(hexString) ==
    LET hasPrefix == Len(hexString) >= 2 /\ hexString[1] = 48 /\ hexString[2] = 120
        stripped == IF hasPrefix THEN SubSeq(hexString, 3, Len(hexString)) ELSE hexString
        cleanHex == IF Len(stripped) % 2 # 0 THEN <<48>> \o stripped ELSE stripped
        byteLength == IF Len(cleanHex) > 2 THEN Len(cleanHex) \div 2 ELSE 1
        normalizedHex == StripLeadingZeros([i \in 1..Len(cleanHex) |-> LowerCase(cleanHex[i])])
    IN [i \in 1..(2 * byteLength - Len(normalizedHex)) |-> 48] \o normalizedHex

\* HexStr.processHex(value, { prefix: false }) of a valid hex string
processHex(value) ==
    LET lower == [i \in 1..Len(value) |-> LowerCase(value[i])]
        hex == IF Len(lower) >= 2 /\ lower[1] = 48 /\ lower[2] = 120
               THEN SubSeq(lower, 3, Len(lower)) ELSE lower
    IN IF Len(hex) % 2 # 0 THEN <<48>> \o hex ELSE hex

\* Buffer.from(hex, 'hex'): one byte per pair of digits, up to the first pair
\* that is not one
RECURSIVE HexToBytes(_)
HexToBytes(hex) ==
    IF Len(hex) < 2 \/ ~IsHexChar(hex[1]) \/ ~IsHexChar(hex[2]) THEN <<>>
    ELSE <<16 * HexCharValue(hex[1]) + HexCharValue(hex[2])>>
             \o HexToBytes(SubSeq(hex, 3, Len(hex)))

\* Buffer.from(value, encoding)
BufferFrom(value, enc) ==
    CASE enc \in {"ascii", "latin1"} -> AsciiBytes(value)
      [] enc = "hex" -> HexToBytes(value)
      [] OTHER -> Utf8Bytes(value)

\* Buffer.alloc(allocSize) followed by buf.write(value, encoding)
AllocWrite(value, enc, allocSize) ==
    LET all == BufferFrom(value, enc)
        bytes == IF enc = "utf8" THEN Utf8Fit(value, allocSize)
                 ELSE SubSeq(all, 1, Min(Len(all), allocSize))
    IN bytes \o Zeros(allocSize - Len(bytes))

\* BinaryWriter.writeLatin1 / writeUTF8 (and writeASCII): allocSize 0 stands
\* for an allocSize that is undefined or 0
writeText(contents, enc, value, allocSize) ==
    IF allocSize # 0
    THEN Append(contents, AllocWrite(value, enc, allocSize))
    ELSE Append(contents, BufferFrom(value, enc))

\* BinaryWriter.writeHex(value, allocSize)
writeHex(contents, value, allocSize) ==
    IF ~isHexString(value) THEN [contents |-> contents, status |-> "invalid"]
    ELSE IF allocSize # 0
    THEN [contents |-> Append(contents, AllocWrite(padHexToLength(value), "hex", allocSize)),
          status |-> "ok"]
    ELSE [contents |-> Append(contents, HexToBytes(padHexToLength(value))), status |-> "ok"]

\* BinaryWriter.write(value) of a Buffer; also writeFloatLE .. writeDoubleBE
\* and writeUInt64LE .. writeInt64BE, whose 4 or 8 encoded bytes are buf
writeBuffer(contents, buf) == Append(contents, buf)

\* BinaryWriter.writeString(value, encoding): the write of the encoding, then
\* Buffer.from(value, encoding).length is returned
writeString(contents, value, encoding) ==
    LET enc == IF encoding = "latin-1" THEN "latin1" ELSE encoding
        res == IF enc = "hex" THEN writeHex(contents, value, 0)
               ELSE [contents |-> IF enc = "ascii" THEN writeASCII(contents, value, 0)
                                  ELSE writeText(contents, enc, value, 0),
                     status |-> "ok"]
    IN [contents |-> res.contents, status |-> res.status,
        value |-> IF res.status = "ok" THEN Len(BufferFrom(value, enc)) ELSE 0]

\* BinaryWriter.writeBoolean(value)
writeBoolean(contents, value) == writeInteger(contents, "UInt8", W(IF value THEN 1 ELSE 0))

toBuffer_LastChunk(contents) ==
    IF contents = <<>> THEN <<>> ELSE contents[Len(contents)]

\* BinaryWriter.toBuffer(): Buffer.concat(this.contents)
toBuffer(contents) == Flatten(contents)

writerLength_Chunks(contents) == Len(contents)

\* BinaryWriter.length: the sum of the chunk lengths
RECURSIVE writerLength(_)
writerLength(contents) ==
    IF contents = <<>> THEN 0 ELSE Len(Head(contents)) + writerLength(Tail(contents))

\* StreamWriter.isClosed: WriteStream.closed, true once 'close' was emitted
streamIsClosed(st) == st.state = "closed"

\* this._operator.write(buf); this._length += buf.length.  A WriteStream that
\* was ended by close() takes no more bytes.
streamPush(st, buf) ==
    [st EXCEPT !.written = IF st.state = "open" THEN @ \o buf ELSE @,
               !.length = @ + Len(buf)]

\* StreamWriter.writeUInt8 .. writeInt32BE
streamWriteInteger(st, prim, value) ==
    IF streamIsClosed(st) THEN [stream |-> st, status |-> "closed"]
    ELSE IF OutOfRange(value, StreamWriterRange(prim))
    THEN [stream |-> st, status |-> "range"]
    ELSE IF OutOfRange(value, NodeRange(prim))
    THEN [stream |-> st, status |-> "node-range"]
    ELSE [stream |-> streamPush(st, EncodeInt(prim, value)), status |-> "ok"]

\* StreamWriter.close(): a no-op once closed, else WriteStream.close(cb), which
\* ends the stream; the promise resolves when 'close' is emitted
streamClose(st) ==
    IF streamIsClosed(st) THEN st ELSE [st EXCEPT !.state = "closing", !.closes = @ + 1]

\* StreamWriter.writeASCII / writeLatin1 / writeUTF8 (value, allocSize);
\* writeLatin1 with an allocSize assigns buf.length to _length
streamWriteText(st, enc, value, allocSize) ==
    IF streamIsClosed(st) THEN [stream |-> st, status |-> "closed"]
    ELSE IF allocSize # 0
    THEN LET buf == AllocWrite(value, enc, allocSize)
             pushed == streamPush(st, buf)
         IN [stream |-> IF enc = "latin1" THEN [pushed EXCEPT !.length = Len(buf)] ELSE pushed,
             status |-> "ok"]
    ELSE [stream |-> streamPush(st, BufferFrom(value, enc)), status |-> "ok"]

\* StreamWriter.writeHex(value, allocSize) of a string value
streamWriteHex(st, value, allocSize) ==
    IF streamIsClosed(st) THEN [stream |-> st, status |-> "closed"]
    ELSE IF ~isHexString(value) THEN [stream |-> st, status |-> "invalid"]
    ELSE IF allocSize # 0
    THEN [stream |-> streamPush(st, AllocWrite(processHex(value), "hex", allocSize)),
          status |-> "ok"]
    ELSE [stream |-> streamPush(st, HexToBytes(processHex(value))), status |-> "ok"]

\* StreamWriter.writePadding(paddingSize, fill)
streamWritePadding(st, paddingSize, fill) ==
    IF streamIsClosed(st) THEN [stream |-> st, status |-> "closed"]
    ELSE [stream |-> streamPush(st, [i \in 1..paddingSize |-> fill % 256]), status |-> "ok"]

\* StreamWriter.write(value) of a Buffer; also writeFloatLE .. writeDoubleBE
\* and writeUInt64LE .. writeInt64BE, whose 4 or 8 encoded bytes are buf
streamWriteBuffer(st, buf) ==
    IF streamIsClosed(st) THEN [stream |-> st, status |-> "closed"]
    ELSE [stream |-> streamPush(st, buf), status |-> "ok"]

\* value = (value << 1) | bitsArray[i] for i = 0..7, bits being 0 or 1
RECURSIVE BitsValue(_)
BitsValue(bits) ==
    IF bits = <<>> THEN 0 ELSE 2 * BitsValue(SubSeq(bits, 1, Len(bits) - 1)) + bits[Len(bits)]

\* StreamWriter.writeUInt8FromBitsArray: writeUInt8(value), then _length += 1
streamWriteUInt8FromBitsArray(st, bitsArray) ==
    LET res == streamWriteInteger(st, "UInt8", W(BitsValue(bitsArray)))
    IN IF res.status = "ok"
       THEN [res EXCEPT !.stream = [@ EXCEPT !.length = @ + 1]]
       ELSE res

\* StreamWriter.writeUInt8FromBitsBooleanArray
streamWriteUInt8FromBitsBooleanArray(st, booleanArray) ==
    streamWriteUInt8FromBitsArray(st,
        [i \in 1..Len(booleanArray) |-> IF booleanArray[i] THEN 1 ELSE 0])

\* StreamWriter.writeUInt8FromBitString: /^[01]{8}$/ is tested first
streamWriteUInt8FromBitString(st, bitString) ==
    IF ~(Len(bitString) = 8 /\ \A i \in 1..8 : bitString[i] \in {48, 49})
    THEN [stream |-> st, status |-> "bitstring"]
    ELSE streamWriteInteger(st, "UInt8",
                            W(BitsValue([i \in 1..8 |-> bitString[i] - 48])))

\* StreamWriter.writeString(value, encoding): the write of the encoding, then
\* Buffer.from(value, encoding).length is returned
streamWriteString(st, value, encoding) ==
    LET enc == IF encoding = "latin-1" THEN "latin1" ELSE encoding
        res == IF enc = "hex" THEN streamWriteHex(st, value, 0)
               ELSE streamWriteText(st, enc, value, 0)
    IN [stream |-> res.stream, status |-> res.status,
        value |-> IF res.status = "ok" THEN Len(BufferFrom(value, enc)) ELSE 0]

\* StreamWriter.writeBoolean(value)
streamWriteBoolean(st, value) ==
    streamWriteInteger(st, "UInt8", W(IF value THEN 1 ELSE 0))

(***************************************************************************)
(* The reader's life: a behaviour of Spec follows one instance              *)
(***************************************************************************)
Contents == SeqsUpTo(ByteAlphabet, MaxLen)
Counts == {0, 1, 2}
SeekOffsets == {-1, 0, 1, 2 * MaxLen + 2}
SeekMethods == {"start", "current", "end"}
Encodings == {"utf8", "latin-1", "hex"}

\* handleCloses counts the calls of FileHandle.close()
NoFile == [exists |-> FALSE, data |-> <<>>, position |-> 0, handleCloses |-> 0]
NoReader == fromBuffer(<<>>)
\* closes counts the calls of WriteStream.close()
NoStream == [state |-> "none", written |-> <<>>, length |-> 0, closes |-> 0]
OpenStream == [NoStream EXCEPT !.state = "open"]
NoTest == [calls |-> 0, log |-> <<>>, got |-> <<>>, phase |-> "calls"]
NoCall == [op |-> "idle", arg |-> <<>>, status |-> "ok", value |-> NoValue, before |-> NoReader,
           fileWas |-> NoFile]

InitReader ==
    /\ obj = "reader"
    /\ \E data \in Contents :
          \/ reader = fromBuffer(data) /\ file = NoFile
          \/ /\ file = [NoFile EXCEPT !.exists = TRUE, !.data = data]
             /\ reader = fromFile(file)
    /\ writer = <<>>
    /\ stream = NoStream
    /\ out = NoCall
    /\ test = NoTest

\* a call on the reader by a caller that awaits each call before the next: no
\* call is in progress, and the cursor stays within the bounds of the model
Step(op, arg, res) ==
    /\ obj = "reader"
    /\ out.op = "idle"
    /\ reader' = res.reader
    /\ file' = res.file
    /\ out' = [op |-> op, arg |-> arg, status |-> res.status, value |-> res.value,
               before |-> reader, fileWas |-> file]
    /\ UNCHANGED <<obj, writer, stream, test>>

Call(op, arg, res) ==
    /\ obj = "reader"
    /\ out.op = "idle"
    /\ res.reader.offset <= MaxOffset
    /\ res.reader.offset >= -MaxBack
    /\ Step(op, arg, res)

Close == Call("close", <<>>, close(reader, file))
Read == \/ Call("read", <<>>, read(reader, file, FALSE, 0))
        \/ \E n \in Counts : Call("read", <<n>>, read(reader, file, TRUE, n))
ReadASCII == \/ Call("readASCII", <<>>, readASCII(reader, file, FALSE, 0))
             \/ \E n \in Counts : Call("readASCII", <<n>>, readASCII(reader, file, TRUE, n))
ReadLatin1 == \/ Call("readLatin1", <<>>, readLatin1(reader, file, FALSE, 0))
              \/ \E n \in Counts : Call("readLatin1", <<n>>, readLatin1(reader, file, TRUE, n))
ReadUTF8 == \/ Call("readUTF8", <<>>, readUTF8(reader, file, FALSE, 0))
            \/ \E n \in Counts : Call("readUTF8", <<n>>, readUTF8(reader, file, TRUE, n))
ReadHex == \E prefix \in BOOLEAN :
             \/ Call("readHex", <<>>, readHex(reader, file, FALSE, 0, prefix, ~prefix))
             \/ \E n \in Counts :
                  Call("readHex", <<n>>, readHex(reader, file, TRUE, n, prefix, ~prefix))
ReadString == \E enc \in Encodings :
                \/ Call("readString", <<"rest", 0, enc>>, readString(reader, file, "rest", 0, enc))
                \/ Call("readString", <<"null", 0, enc>>, readString(reader, file, "null", 0, enc))
                \/ \E n \in Counts :
                     Call("readString", <<"count", n, enc>>, readString(reader, file, "count", n, enc))
Padding == \E n \in Counts : Call("padding", <<n>>, padding(reader, file, n))
Seek == \E o \in SeekOffsets, m \in SeekMethods : Call("seek", <<o, m>>, seek(reader, file, o, m))
ReadUInt8 == Call("readUInt8", <<>>, readUInt8(reader, file))
ReadUInt16LE == Call("readUInt16LE", <<>>, readUInt16LE(reader, file))
ReadUInt16BE == Call("readUInt16BE", <<>>, readUInt16BE(reader, file))
ReadUInt24LE == Call("readUInt24LE", <<>>, readUInt24LE(reader, file))
ReadUInt24BE == Call("readUInt24BE", <<>>, readUInt24BE(reader, file))
ReadUInt32LE == Call("readUInt32LE", <<>>, readUInt32LE(reader, file))
ReadUInt32BE == Call("readUInt32BE", <<>>, readUInt32BE(reader, file))
ReadInt8 == Call("readInt8", <<>>, readInt8(reader, file))
ReadInt16LE == Call("readInt16LE", <<>>, readInt16LE(reader, file))
ReadInt16BE == Call("readInt16BE", <<>>, readInt16BE(reader, file))
ReadInt24LE == Call("readInt24LE", <<>>, readInt24LE(reader, file))
ReadInt24BE == Call("readInt24BE", <<>>, readInt24BE(reader, file))
ReadInt32LE == Call("readInt32LE", <<>>, readInt32LE(reader, file))
ReadInt32BE == Call("readInt32BE", <<>>, readInt32BE(reader, file))
ReadFloatLE == Call("readFloatLE", <<>>, readFloatLE(reader, file))
ReadFloatBE == Call("readFloatBE", <<>>, readFloatBE(reader, file))
ReadDoubleLE == Call("readDoubleLE", <<>>, readDoubleLE(reader, file))
ReadDoubleBE == Call("readDoubleBE", <<>>, readDoubleBE(reader, file))
ReadUInt64LE == Call("readUInt64LE", <<>>, readUInt64LE(reader, file))
ReadUInt64BE == Call("readUInt64BE", <<>>, readUInt64BE(reader, file))
ReadInt64LE == Call("readInt64LE", <<>>, readInt64LE(reader, file))
ReadInt64BE == Call("readInt64BE", <<>>, readInt64BE(reader, file))
ReadByteAsBitArray == Call("readByteAsBitArray", <<>>, readByteAsBitArray(reader, file))
ReadByteAsBooleanArray ==
    Call("readByteAsBooleanArray", <<>>, readByteAsBooleanArray(reader, file))
ReadBitString == Call("readBitString", <<>>, readBitString(reader, file))
ReadBooleanFromByte == Call("readBooleanFromByte", <<>>, readBooleanFromByte(reader, file))

\* the environment removes the file a file-backed reader was opened on
DeleteFile ==
    /\ obj = "reader"
    /\ out.op = "idle"
    /\ reader.operator = "fileHandle"
    /\ file.exists
    /\ file' = [file EXCEPT !.exists = FALSE]
    /\ UNCHANGED <<obj, reader, writer, stream, out, test>>

\* the caller takes the result of the call and goes on; a call that never
\* returns leaves it waiting for ever
Resume ==
    /\ out.op # "idle"
    /\ out.status # "diverges"
    /\ out' = NoCall
    /\ UNCHANGED <<obj, reader, file, writer, stream, test>>

ReaderNext ==
    \/ Close \/ Read \/ ReadASCII \/ ReadLatin1 \/ ReadUTF8 \/ ReadHex \/ ReadString
    \/ Padding \/ Seek
    \/ ReadUInt8 \/ ReadUInt16LE \/ ReadUInt16BE \/ ReadUInt24LE \/ ReadUInt24BE
    \/ ReadUInt32LE \/ ReadUInt32BE
    \/ ReadInt8 \/ ReadInt16LE \/ ReadInt16BE \/ ReadInt24LE \/ ReadInt24BE
    \/ ReadInt32LE \/ ReadInt32BE
    \/ ReadFloatLE \/ ReadFloatBE \/ ReadDoubleLE \/ ReadDoubleBE
    \/ ReadUInt64LE \/ ReadUInt64BE \/ ReadInt64LE \/ ReadInt64BE
    \/ ReadByteAsBitArray \/ ReadByteAsBooleanArray \/ ReadBitString \/ ReadBooleanFromByte
    \/ DeleteFile

(***************************************************************************)
(* The writers' lives                                                      *)
(***************************************************************************)
\* the values the integer writes are called with: the ends of the range of
\* the width, their outer neighbours, and 1
BoundaryValues(prim) ==
    LET r == NodeRange(prim)
    IN {WSub(r.lo, W(1)), r.lo, W(1), r.hi, WAdd(r.hi, W(1))}

\* the arguments of the text, hex and bit writes: "A" and "\u00e9A"; "0xa",
\* "F1", "g1" and ""; "10000001", "1000000" and "1000000x"
TextEncodings == {"ascii", "latin1", "utf8"}
StringEncodings == {"utf8", "ascii", "latin-1", "hex"}
Texts == {<<65>>, <<233, 65>>}
AllocSizes == {0, 1, 3}
HexInputs == {<<48, 120, 97>>, <<70, 49>>, <<103, 49>>, <<>>}
RawBuffers == {<<>>, <<0, 0, 128, 63>>, <<0, 0, 0, 0, 0, 0, 240, 63>>}
BitArrays == {<<0, 0, 0, 0, 0, 0, 0, 0>>, <<1, 0, 0, 0, 0, 0, 0, 1>>}
BitStrings ==
    {<<49, 48, 48, 48, 48, 48, 48, 49>>, <<49, 48, 48, 48, 48, 48, 48>>,
     <<49, 48, 48, 48, 48, 48, 48, 120>>}

\* new BinaryWriter()
InitWriter ==
    /\ obj = "writer"
    /\ reader = NoReader /\ file = NoFile
    /\ writer = <<>>
    /\ stream = NoStream
    /\ out = NoCall
    /\ test = NoTest

\* StreamWriter.toFile(path): a fresh file and an open WriteStream on it
InitStream ==
    /\ obj = "stream"
    /\ reader = NoReader /\ file = NoFile
    /\ writer = <<>>
    /\ stream = OpenStream
    /\ out = NoCall
    /\ test = NoTest

\* a call on the BinaryWriter; the driver makes at most MaxWrites write calls
WriterCall(op, arg, res, value) ==
    /\ obj = "writer"
    /\ out.op = "idle"
    /\ writer' = res.contents
    /\ out' = [op |-> op, arg |-> arg, status |-> res.status, value |-> value,
               before |-> [contents |-> writer], fileWas |-> file]
    /\ UNCHANGED <<obj, reader, file, stream>>

\* a call on the StreamWriter
StreamCall(op, arg, res, value) ==
    /\ obj = "stream"
    /\ out.op = "idle"
    /\ stream' = res.stream
    /\ out' = [op |-> op, arg |-> arg, status |-> res.status, value |-> value,
               before |-> stream, fileWas |-> file]
    /\ UNCHANGED <<obj, reader, file, writer>>

CountCall == test.calls < MaxWrites /\ test' = [test EXCEPT !.calls = @ + 1]

\* A write call of a writer's life.  Whatever the bound, the last two writes of
\* a life range over all the arguments; the writes before them are one-byte
\* writes that only lengthen what the writer holds.
PlainWrite(op, arg) ==
    \/ op = "writePadding" /\ arg = <<1, 0>>
    \/ op = "writeInteger" /\ arg = <<"UInt8", W(1)>>
CountWrite ==
    /\ test.calls < MaxWrites
    /\ (test.calls + 2 < MaxWrites) => PlainWrite(out'.op, out'.arg)
    /\ test' = [test EXCEPT !.calls = @ + 1]

BWWriteInteger ==
    /\ obj = "writer"
    /\ test.calls < MaxWrites
    /\ \E prim \in IntPrims : \E v \in BoundaryValues(prim) :
        /\ WriterCall("writeInteger", <<prim, v>>, writeInteger(writer, prim, v), NoValue)
        /\ CountWrite

\* test.got keeps what each toBuffer() returned and the number of chunks then
BWToBuffer ==
    /\ Len(test.got) < MaxToBuffers
    /\ WriterCall("toBuffer", <<>>, [contents |-> writer, status |-> "ok"], toBuffer(writer))
    /\ test' = [test EXCEPT !.got = Append(@, [buffer |-> toBuffer(writer),
                                               chunks |-> Len(writer)])]

BWWriteText ==
    /\ obj = "writer"
    /\ test.calls < MaxWrites
    /\ \E enc \in TextEncodings, value \in Texts, allocSize \in AllocSizes :
        /\ WriterCall("writeText", <<enc, value, allocSize>>,
                      [contents |-> IF enc = "ascii" THEN writeASCII(writer, value, allocSize)
                                    ELSE writeText(writer, enc, value, allocSize),
                       status |-> "ok"], NoValue)
        /\ CountWrite

BWWriteHex ==
    /\ obj = "writer"
    /\ test.calls < MaxWrites
    /\ \E value \in HexInputs, allocSize \in AllocSizes :
        /\ WriterCall("writeHex", <<value, allocSize>>, writeHex(writer, value, allocSize),
                      NoValue)
        /\ CountWrite

BWWritePadding ==
    /\ obj = "writer"
    /\ test.calls < MaxWrites
    /\ \E size \in AllocSizes, fill \in ByteAlphabet :
        /\ WriterCall("writePadding", <<size, fill>>,
                      [contents |-> writePadding(writer, size, fill), status |-> "ok"], NoValue)
        /\ CountWrite

SWWriteInteger ==
    /\ obj = "stream"
    /\ test.calls < MaxWrites
    /\ \E prim \in IntPrims : \E v \in BoundaryValues(prim) :
        /\ StreamCall("writeInteger", <<prim, v>>, streamWriteInteger(stream, prim, v), NoValue)
        /\ CountWrite

SWWriteText ==
    /\ obj = "stream"
    /\ test.calls < MaxWrites
    /\ \E enc \in TextEncodings, value \in Texts, allocSize \in AllocSizes :
        /\ StreamCall("writeText", <<enc, value, allocSize>>,
                      streamWriteText(stream, enc, value, allocSize), NoValue)
        /\ CountWrite

SWWriteHex ==
    /\ obj = "stream"
    /\ test.calls < MaxWrites
    /\ \E value \in HexInputs, allocSize \in AllocSizes :
        /\ StreamCall("writeHex", <<value, allocSize>>,
                      streamWriteHex(stream, value, allocSize), NoValue)
        /\ CountWrite

SWWritePadding ==
    /\ obj = "stream"
    /\ test.calls < MaxWrites
    /\ \E size \in AllocSizes, fill \in ByteAlphabet :
        /\ StreamCall("writePadding", <<size, fill>>,
                      streamWritePadding(stream, size, fill), NoValue)
        /\ CountWrite

\* write(Buffer), the float and double writes and the 64-bit writes
SWWriteBuffer ==
    /\ obj = "stream"
    /\ test.calls < MaxWrites
    /\ \E buf \in RawBuffers :
        /\ StreamCall("writeBuffer", <<buf>>, streamWriteBuffer(stream, buf), NoValue)
        /\ CountWrite

SWWriteUInt8FromBitsArray ==
    /\ obj = "stream"
    /\ test.calls < MaxWrites
    /\ \E bits \in BitArrays :
        /\ StreamCall("writeUInt8FromBitsArray", <<bits>>,
                      streamWriteUInt8FromBitsArray(stream, bits), NoValue)
        /\ CountWrite

SWWriteUInt8FromBitsBooleanArray ==
    /\ obj = "stream"
    /\ test.calls < MaxWrites
    /\ \E bits \in BitArrays :
        /\ StreamCall("writeUInt8FromBitsBooleanArray", <<bits>>,
                      streamWriteUInt8FromBitsBooleanArray(stream,
                          [i \in 1..8 |-> bits[i] = 1]), NoValue)
        /\ CountWrite

SWWriteUInt8FromBitString ==
    /\ obj = "stream"
    /\ test.calls < MaxWrites
    /\ \E bitString \in BitStrings :
        /\ StreamCall("writeUInt8FromBitString", <<bitString>>,
                      streamWriteUInt8FromBitString(stream, bitString), NoValue)
        /\ CountWrite

SWWriteString ==
    /\ obj = "stream"
    /\ test.calls < MaxWrites
    /\ \E value \in Texts \cup HexInputs, encoding \in StringEncodings :
        /\ StreamCall("writeString", <<value, encoding>>,
                      streamWriteString(stream, value, encoding),
                      streamWriteString(stream, value, encoding).value)
        /\ CountWrite

SWWriteBoolean ==
    /\ obj = "stream"
    /\ test.calls < MaxWrites
    /\ \E value \in BOOLEAN :
        /\ StreamCall("writeBoolean", <<value>>, streamWriteBoolean(stream, value), NoValue)
        /\ CountWrite

SWClose ==
    /\ stream.closes < MaxCloses
    /\ StreamCall("close", <<>>, [stream |-> streamClose(stream), status |-> "ok"], NoValue)
    /\ UNCHANGED test

\* the WriteStream emits 'close': the promise of close() resolves.  The event
\* is delivered between two calls, never inside a synchronous write.
StreamClosed ==
    /\ obj = "stream"
    /\ out.op = "idle"
    /\ stream.state = "closing"
    /\ stream' = [stream EXCEPT !.state = "closed"]
    /\ UNCHANGED <<obj, reader, file, writer, out, test>>

WriterNext == BWWriteInteger \/ BWToBuffer \/ BWWriteText \/ BWWriteHex \/ BWWritePadding
StreamNext ==
    \/ SWWriteInteger \/ SWWriteText \/ SWWriteHex \/ SWWritePadding \/ SWWriteBuffer
    \/ SWWriteUInt8FromBitsArray \/ SWWriteUInt8FromBitsBooleanArray
    \/ SWWriteUInt8FromBitString \/ SWWriteString \/ SWWriteBoolean
    \/ SWClose \/ StreamClosed

(***************************************************************************)
(* seek() alone, over readers long enough for the wrap-around of a seek     *)
(***************************************************************************)
SeekLengths == {0, 1, MaxLen, 100}
SeekCursors == {-1, 0, 1, 30, 80, 100, 101, 201}

InitSeek ==
    /\ obj = "reader"
    /\ \E n \in SeekLengths : reader = fromBuffer(Zeros(n))
    /\ file = NoFile
    /\ writer = <<>>
    /\ stream = NoStream
    /\ out = NoCall
    /\ test = NoTest

SeekFar ==
    \E o \in SeekCursors, m \in SeekMethods :
        /\ out.op = "idle"
        /\ seek(reader, file, o, m).reader.offset \in -MaxSeek..MaxSeek
        /\ Step("seek", <<o, m>>, seek(reader, file, o, m))

SeekNext == SeekFar \/ Resume
SeekSpec == InitSeek /\ [][SeekNext]_vars

(***************************************************************************)
(* A BinaryWriter filled with values, materialized, and read back in order  *)
(* by a buffer-backed BinaryReader                                          *)
(***************************************************************************)
IntItem(prim, value) == [kind |-> "int", prim |-> prim, value |-> value, text |-> <<>>, size |-> 0]
TextItem(text) == [kind |-> "ascii", prim |-> "", value |-> W(0), text |-> text, size |-> 0]
PaddingItem(size) == [kind |-> "padding", prim |-> "", value |-> W(0), text |-> <<>>, size |-> size]

\* the values written: the ends of each range, and 0x12345678 and "OK"
Items ==
    {IntItem(prim, NodeRange(prim).hi) : prim \in IntPrims}
    \cup {IntItem(prim, NodeRange(prim).lo) : prim \in {q \in IntPrims : IntSigned(q)}}
    \cup {IntItem("UInt32LE", [hi |-> 4660, lo |-> 22136]), TextItem(<<79, 75>>), PaddingItem(1)}

\* the write made for an item
WriteItem(contents, item) ==
    CASE item.kind = "int" -> writeInteger(contents, item.prim, item.value).contents
      [] item.kind = "ascii" -> writeASCII(contents, item.text, 0)
      [] item.kind = "padding" -> writePadding(contents, item.size, 0)

\* the read that matches the write of an item
ReadItem(r, f, item) ==
    CASE item.kind = "ascii" -> readASCII(r, f, TRUE, Len(item.text))
      [] item.kind = "padding" -> read(r, f, TRUE, item.size)
      [] item.prim = "UInt8" -> readUInt8(r, f)
      [] item.prim = "UInt16LE" -> readUInt16LE(r, f)
      [] item.prim = "UInt16BE" -> readUInt16BE(r, f)
      [] item.prim = "UInt24LE" -> readUInt24LE(r, f)
      [] item.prim = "UInt24BE" -> readUInt24BE(r, f)
      [] item.prim = "UInt32LE" -> readUInt32LE(r, f)
      [] item.prim = "UInt32BE" -> readUInt32BE(r, f)
      [] item.prim = "Int8" -> readInt8(r, f)
      [] item.prim = "Int16LE" -> readInt16LE(r, f)
      [] item.prim = "Int16BE" -> readInt16BE(r, f)
      [] item.prim = "Int24LE" -> readInt24LE(r, f)
      [] item.prim = "Int24BE" -> readInt24BE(r, f)
      [] item.prim = "Int32LE" -> readInt32LE(r, f)
      [] item.prim = "Int32BE" -> readInt32BE(r, f)

InitRoundTrip ==
    /\ obj = "roundtrip"
    /\ reader = NoReader /\ file = NoFile
    /\ writer = <<>>
    /\ stream = NoStream
    /\ out = NoCall
    /\ test = NoTest

RTWrite ==
    /\ test.phase = "calls"
    /\ Len(test.log) < MaxItems
    /\ \E item \in Items :
          /\ writer' = WriteItem(writer, item)
          /\ test' = [test EXCEPT !.log = Append(@, item)]
    /\ UNCHANGED <<obj, reader, file, stream, out>>

\* BinaryReader.fromBuffer(writer.toBuffer())
RTMaterialize ==
    /\ test.phase = "calls"
    /\ test.log # <<>>
    /\ reader' = fromBuffer(toBuffer(writer))
    /\ test' = [test EXCEPT !.phase = "reads"]
    /\ UNCHANGED <<obj, file, writer, stream, out>>

RTRead ==
    /\ test.phase = "reads"
    /\ LET k == Len(test.got) + 1
           res == ReadItem(reader, file, test.log[k])
       IN /\ reader' = res.reader
          /\ test' = [test EXCEPT
                        !.got = Append(@, [status |-> res.status, value |-> res.value,
                                           at |-> reader.offset]),
                        !.phase = IF k = Len(test.log) THEN "done" ELSE "reads"]
    /\ UNCHANGED <<obj, file, writer, stream, out>>

RoundTripNext == RTWrite \/ RTMaterialize \/ RTRead
RoundTripSpec == InitRoundTrip /\ [][RoundTripNext]_vars

(***************************************************************************)
(* toFile: the writers and a target path that may already hold a file       *)
(***************************************************************************)
\* deleteFile / deleteFileSync: unlink when the path exists
deleteFile(f) == IF f.exists THEN [f EXCEPT !.exists = FALSE, !.data = <<>>] ELSE f

\* createFileWriteStreamSync: delete what is there, then createWriteStream,
\* which opens the path with flag 'w'
createWriteStreamSync(f) ==
    [file |-> [deleteFile(f) EXCEPT !.exists = TRUE],
     events |-> (IF f.exists THEN <<"unlink">> ELSE <<>>) \o <<"open">>]

writeFile_WriteThenCheck(f, data, replace) ==
    [file |-> [f EXCEPT !.exists = TRUE, !.data = data],
     status |-> IF f.exists /\ ~replace THEN "exists" ELSE "ok", events |-> <<"write">>]

\* writeFile / writeFileSync (path, data, encoding, replace)
writeFile(f, data, replace) ==
    IF f.exists /\ ~replace
    THEN [file |-> f, status |-> "exists", events |-> <<>>]
    ELSE [file |-> [f EXCEPT !.exists = TRUE, !.data = data], status |-> "ok",
          events |-> <<"write">>]

\* BinaryWriter.toFile / toFileSync (path, encoding, replace)
binaryToFile(contents, f, replace) == writeFile(f, toBuffer(contents), replace)

\* StreamWriter.toFile(filePath, replace)
streamToFile(f, replace) ==
    IF f.exists /\ ~replace
    THEN [file |-> f, status |-> "exists", events |-> <<>>]
    ELSE LET deleted == deleteFile(f)
             made == createWriteStreamSync(deleted)
         IN [file |-> made.file, status |-> "ok",
             events |-> (IF f.exists THEN <<"unlink">> ELSE <<>>) \o made.events]

WriterContents == {<<>>, <<<<1>>>>, <<<<1, 2>>, <<3>>>>}

InitToFile ==
    /\ obj \in {"writer", "stream"}
    /\ reader = NoReader
    /\ file \in {NoFile} \cup {[NoFile EXCEPT !.exists = TRUE, !.data = data] : data \in Contents}
    /\ writer \in (IF obj = "writer" THEN WriterContents ELSE {<<>>})
    /\ stream = NoStream
    /\ out = NoCall
    /\ test = NoTest

ToFileCall(op, replace, res) ==
    /\ out.op = "idle"
    /\ file' = res.file
    /\ out' = [op |-> op, arg |-> <<replace>>, status |-> res.status, value |-> res.events,
               before |-> [contents |-> writer, stream |-> stream], fileWas |-> file]
    /\ CountCall
    /\ UNCHANGED <<obj, reader, writer>>

SWToFile ==
    \E replace \in BOOLEAN :
        /\ obj = "stream"
        /\ ToFileCall("toFile", replace, streamToFile(file, replace))
        /\ stream' = IF streamToFile(file, replace).status = "ok" THEN OpenStream ELSE stream

BWToFile ==
    \E replace \in BOOLEAN :
        /\ obj = "writer"
        /\ ToFileCall("toFile", replace, binaryToFile(writer, file, replace))
        /\ UNCHANGED stream

BWToFileSync ==
    \E replace \in BOOLEAN :
        /\ obj = "writer"
        /\ ToFileCall("toFileSync", replace, binaryToFile(writer, file, replace))
        /\ UNCHANGED stream

ToFileNext == SWToFile \/ BWToFile \/ BWToFileSync \/ Resume
ToFileSpec == InitToFile /\ [][ToFileNext]_vars

(***************************************************************************)
(* One byte read as bits and written back: every byte value, both backends  *)
(***************************************************************************)
ByteValues == 0..255

\* a reader over one byte, a StreamWriter on a fresh file; test.log keeps the byte
InitBits ==
    /\ obj = "bits"
    /\ \E byte \in ByteValues :
          /\ test = [NoTest EXCEPT !.log = <<byte>>]
          /\ \/ reader = fromBuffer(<<byte>>) /\ file = NoFile
             \/ /\ file = [NoFile EXCEPT !.exists = TRUE, !.data = <<byte>>]
                /\ reader = fromFile(file)
    /\ writer = <<>>
    /\ stream = OpenStream
    /\ out = NoCall

\* a bit read; test.got keeps the value it returned
BitRead(op, res) ==
    /\ obj = "bits"
    /\ out.op = "idle"
    /\ test.phase = "calls"
    /\ reader' = res.reader
    /\ file' = res.file
    /\ out' = [op |-> op, arg |-> <<>>, status |-> res.status, value |-> res.value,
               before |-> reader, fileWas |-> file]
    /\ test' = [test EXCEPT !.got = <<[op |-> op, value |-> res.value]>>, !.phase = "reads"]
    /\ UNCHANGED <<obj, writer, stream>>

BitReadByteAsBitArray == BitRead("readByteAsBitArray", readByteAsBitArray(reader, file))
BitReadByteAsBooleanArray ==
    BitRead("readByteAsBooleanArray", readByteAsBooleanArray(reader, file))
BitReadBitString == BitRead("readBitString", readBitString(reader, file))

\* the value read is written with the StreamWriter method that takes it
BitWrite(readOp, op, res) ==
    /\ obj = "bits"
    /\ out.op = "idle"
    /\ test.phase = "reads"
    /\ test.got[1].op = readOp
    /\ stream' = res.stream
    /\ out' = [op |-> op, arg |-> <<>>, status |-> res.status, value |-> NoValue,
               before |-> reader, fileWas |-> file]
    /\ test' = [test EXCEPT !.phase = "done"]
    /\ UNCHANGED <<obj, reader, file, writer>>

BitWriteUInt8FromBitsArray ==
    BitWrite("readByteAsBitArray", "writeUInt8FromBitsArray",
             streamWriteUInt8FromBitsArray(stream, test.got[1].value))
BitWriteUInt8FromBitsBooleanArray ==
    BitWrite("readByteAsBooleanArray", "writeUInt8FromBitsBooleanArray",
             streamWriteUInt8FromBitsBooleanArray(stream, test.got[1].value))
BitWriteUInt8FromBitString ==
    BitWrite("readBitString", "writeUInt8FromBitString",
             streamWriteUInt8FromBitString(stream, test.got[1].value.text))

BitsNext ==
    \/ BitReadByteAsBitArray \/ BitReadByteAsBooleanArray \/ BitReadBitString
    \/ BitWriteUInt8FromBitsArray \/ BitWriteUInt8FromBitsBooleanArray
    \/ BitWriteUInt8FromBitString \/ Resume
BitsSpec == InitBits /\ [][BitsNext]_vars

(***************************************************************************)
(* Reads in flight on a file-backed reader. An async read runs up to its    *)
(* await in the caller's turn: the checks, then the request to the file     *)
(* handle with position this._offset. What follows the await, the advance   *)
(* of the cursor and the decoding, runs in a later turn, when the read has   *)
(* settled. test.log holds the calls made, test.phase how the caller makes   *)
(* them: awaiting each call before the next, or not.                         *)
(***************************************************************************)
MaxInFlight == 2   \* read calls the caller makes on the reader

\* up to the await: the request to the file handle, position: this._offset
readIssue(r, op, width) ==
    [op |-> op, width |-> width, position |-> r.offset, state |-> "reading",
     value |-> NoValue]

\* past the await, with the mutation that moves the cursor to the end of the
\* bytes the call has read
readSettle_FromPosition(r, f, call) ==
    LET rd == FileHandleRead(f, call.width, call.position)
    IN [reader |-> [r EXCEPT !.offset = call.position + call.width],
        call |-> [call EXCEPT !.state = "done",
                              !.value = IF call.op = "read" THEN rd.buffer
                                        ELSE Decode("UIntLE", rd.buffer)]]
\* past the await: this._offset += width, then the bytes read are decoded
readSettle(r, f, call) ==
    LET rd == FileHandleRead(f, call.width, call.position)
    IN [reader |-> [r EXCEPT !.offset = @ + call.width],
        call |-> [call EXCEPT !.state = "done",
                              !.value = IF call.op = "read" THEN rd.buffer
                                        ELSE Decode("UIntLE", rd.buffer)]]

InitRace ==
    /\ obj = "race"
    /\ \E data \in Contents :
          /\ file = [NoFile EXCEPT !.exists = TRUE, !.data = data]
          /\ reader = fromFile(file)
    /\ writer = <<>>
    /\ stream = NoStream
    /\ out = NoCall
    /\ \E phase \in {"awaited", "unawaited"} : test = [NoTest EXCEPT !.phase = phase]

\* the caller makes a call; one that awaits its calls makes it only when the
\* calls before it have returned
RaceIssue(op, width) ==
    /\ obj = "race"
    /\ Len(test.log) < MaxInFlight
    /\ test.phase = "awaited" => \A i \in 1..Len(test.log) : test.log[i].state = "done"
    /\ ~checkExistenceThrows(reader, file)
    /\ ~checkIfFileHandleIsClosedThrows(reader)
    /\ test' = [test EXCEPT !.log = Append(@, readIssue(reader, op, width)),
                            !.calls = @ + 1]
    /\ UNCHANGED <<obj, reader, file, writer, stream, out>>

RaceReadUInt8 == RaceIssue("readUInt8", 1)
RaceReadUInt16LE == RaceIssue("readUInt16LE", 2)
RaceRead == \E allocSize \in {1, 2} : RaceIssue("read", allocSize)

\* a read settles and the call that awaited it goes on to its end
RaceSettle ==
    /\ obj = "race"
    /\ \E i \in 1..Len(test.log) :
          /\ test.log[i].state = "reading"
          /\ LET res == readSettle(reader, file, test.log[i])
             IN /\ reader' = res.reader
                /\ test' = [test EXCEPT !.log[i] = res.call]
    /\ UNCHANGED <<obj, file, writer, stream, out>>

RaceNext == RaceReadUInt8 \/ RaceReadUInt16LE \/ RaceRead \/ RaceSettle
RaceSpec == InitRace /\ [][RaceNext]_vars

(***************************************************************************)
(* The two writers side by side: the same calls made on a BinaryWriter and  *)
(* on a StreamWriter                                                        *)
(***************************************************************************)
InitPair ==
    /\ obj = "pair"
    /\ reader = NoReader /\ file = NoFile
    /\ writer = <<>>
    /\ stream = OpenStream
    /\ out = NoCall
    /\ test = NoTest

\* the call op(arg) made on both; bw and sw are its outcomes
PairCall(op, arg, bw, sw) ==
    /\ obj = "pair"
    /\ out.op = "idle"
    /\ test.calls < MaxWrites
    /\ writer' = bw.contents
    /\ stream' = sw.stream
    /\ out' = [op |-> op, arg |-> arg, status |-> sw.status, value |-> bw.status,
               before |-> [contents |-> writer, stream |-> stream], fileWas |-> file]
    /\ CountWrite
    /\ UNCHANGED <<obj, reader, file>>

PairWriteInteger ==
    /\ obj = "pair"
    /\ \E prim \in IntPrims : \E v \in BoundaryValues(prim) :
          PairCall("writeInteger", <<prim, v>>, writeInteger(writer, prim, v),
                   streamWriteInteger(stream, prim, v))

PairWriteText ==
    /\ obj = "pair"
    /\ \E enc \in TextEncodings, value \in Texts, allocSize \in AllocSizes :
          PairCall("writeText", <<enc, value, allocSize>>,
                   [contents |-> IF enc = "ascii" THEN writeASCII(writer, value, allocSize)
                                 ELSE writeText(writer, enc, value, allocSize),
                    status |-> "ok"],
                   streamWriteText(stream, enc, value, allocSize))

PairWriteHex ==
    /\ obj = "pair"
    /\ \E value \in HexInputs, allocSize \in AllocSizes :
          PairCall("writeHex", <<value, allocSize>>, writeHex(writer, value, allocSize),
                   streamWriteHex(stream, value, allocSize))

PairWritePadding ==
    /\ obj = "pair"
    /\ \E size \in AllocSizes, fill \in ByteAlphabet :
          PairCall("writePadding", <<size, fill>>,
                   [contents |-> writePadding(writer, size, fill), status |-> "ok"],
                   streamWritePadding(stream, size, fill))

\* write(Buffer), the float and double writes and the 64-bit writes
PairWriteBuffer ==
    /\ obj = "pair"
    /\ \E buf \in RawBuffers :
          PairCall("writeBuffer", <<buf>>,
                   [contents |-> writeBuffer(writer, buf), status |-> "ok"],
                   streamWriteBuffer(stream, buf))

\* writeString(value, encoding), and write(value, encoding) of a string, which
\* makes the same call of writeASCII / writeHex / writeLatin1 / writeUTF8
PairWriteString ==
    /\ obj = "pair"
    /\ \E value \in Texts \cup HexInputs, encoding \in StringEncodings :
          PairCall("writeString", <<value, encoding>>, writeString(writer, value, encoding),
                   streamWriteString(stream, value, encoding))

PairWriteBoolean ==
    /\ obj = "pair"
    /\ \E value \in BOOLEAN :
          PairCall("writeBoolean", <<value>>, writeBoolean(writer, value),
                   streamWriteBoolean(stream, value))

PairNext ==
    \/ PairWriteInteger \/ PairWriteText \/ PairWriteHex \/ PairWritePadding
    \/ PairWriteBuffer \/ PairWriteString \/ PairWriteBoolean \/ Resume
PairSpec == InitPair /\ [][PairNext]_vars

Init == InitReader \/ InitWriter \/ InitStream
Next == ReaderNext \/ WriterNext \/ StreamNext \/ Resume
Spec == Init /\ [][Next]_vars

\* a behaviour follows one instance, so Spec is the union of these three
ReaderSpec == InitReader /\ [][ReaderNext \/ Resume]_vars
WriterSpec == InitWriter /\ [][WriterNext \/ Resume]_vars
StreamSpec == InitStream /\ [][StreamNext \/ Resume]_vars
WritersSpec == (InitWriter \/ InitStream) /\ [][WriterNext \/ StreamNext \/ Resume]_vars

(***************************************************************************)
(* Claims about BinaryReader                                               *)
(***************************************************************************)
RangeReadOps == {"read", "readASCII", "readLatin1", "readUTF8", "readHex", "readString"}
FixedReadOps ==
    {"readUInt8", "readUInt16LE", "readUInt16BE", "readUInt24LE", "readUInt24BE",
     "readUInt32LE", "readUInt32BE", "readInt8", "readInt16LE", "readInt16BE",
     "readInt24LE", "readInt24BE", "readInt32LE", "readInt32BE", "readFloatLE",
     "readFloatBE", "readDoubleLE", "readDoubleBE", "readUInt64LE", "readUInt64BE",
     "readInt64LE", "readInt64BE", "readBooleanFromByte"}
BitReadOps == {"readByteAsBitArray", "readByteAsBooleanArray", "readBitString"}
ReadOps == RangeReadOps \cup FixedReadOps \cup BitReadOps

\* C1 -- Right after any seek(offset, method), whatever the offset (negative,
\* zero, beyond twice the length) and the method, 0 <= cursor <= length.
C1_SeekKeepsCursorInBounds ==
    out.op = "seek" => 0 <= reader.offset /\ reader.offset <= reader.length

\* C2 -- On a closed reader seek() and padding() fail and leave the cursor
\* where it was.
C2_ClosedReaderDoesNotMove ==
    out.op \in {"seek", "padding"} /\ out.before.isClosed
        => out.status # "ok" /\ reader.offset = out.before.offset

\* C3 (as claimed) -- On a closed reader every read primitive, on both
\* backends, fails with the reader-closed condition and leaves the cursor
\* where it was.
C3_ClosedReadFailsClosed ==
    out.op \in ReadOps /\ out.before.isClosed
        => out.status = "closed" /\ reader.offset = out.before.offset

\* C3 (amended) -- On a closed reader every read primitive, on both backends,
\* fails and leaves the cursor where it was: with the file-not-found condition
\* when the reader is file-backed and its file is gone (that check comes
\* first), and with the reader-closed condition in every other case.
C3_ClosedReadFails ==
    out.op \in ReadOps /\ out.before.isClosed
        => /\ out.status = (IF reader.operator = "fileHandle" /\ ~file.exists
                            THEN "notfound" ELSE "closed")
           /\ reader.offset = out.before.offset

C3_Witness ==
    /\ out.op = "readInt16BE" /\ out.before.isClosed /\ out.status = "closed"
    /\ reader.operator = "fileHandle" /\ reader.offset = 2

\* C4 -- Closed is terminal for BinaryReader and for StreamWriter: a completed
\* close() leaves isClosed true, and no later operation (read, write, seek,
\* padding, close) makes it false again: every call made on a closed instance
\* returns with the instance still closed.
C4_ClosedIsTerminal ==
    /\ obj = "reader" /\ out.op # "idle"
          => (out.op = "close" \/ out.before.isClosed => reader.isClosed)
    /\ obj = "stream" /\ out.op # "idle"
          => (streamIsClosed(out.before) => streamIsClosed(stream))

C4_Witness ==
    /\ obj = "reader" /\ reader.isClosed
    /\ out.op = "close" /\ out.before.isClosed /\ out.before.offset = 3

ContentOf(r, f) == IF r.operator = "buffer" THEN r.buffer ELSE f.data
Rest(r, f, from) == SubSeq(ContentOf(r, f), from + 1, Len(ContentOf(r, f)))

\* C6 -- A byte or text read without a byte count returns exactly the bytes
\* from the cursor to the end and sets the cursor to 0, on both backends; a
\* read with a byte count n advances the cursor by exactly n.
C6_RemainingResetsCountedAdvances ==
    (/\ out.op \in RangeReadOps /\ out.status = "ok"
     /\ (out.op = "readString" => out.arg[1] # "null")
     /\ out.before.offset >= 0 /\ out.before.offset <= out.before.length)
    => LET b == out.before
           counted == IF out.op = "readString" THEN out.arg[1] = "count"
                      ELSE out.arg # <<>>
           n == IF out.op = "readString" THEN out.arg[2] ELSE out.arg[1]
           rest == Rest(b, file, b.offset)
       IN IF counted
          THEN reader.offset = b.offset + n
          ELSE /\ reader.offset = 0
               /\ out.op = "read" => out.value = rest
               /\ out.op = "readASCII" => out.value = TextOf(rest, "ascii")
               /\ out.op = "readLatin1" => out.value = TextOf(rest, "latin1")
               /\ out.op = "readUTF8" => out.value = TextOf(rest, "utf8")

\* the index of the first zero byte of s at or after index from + 1, or 0
RECURSIVE FirstZero(_, _)
FirstZero(s, from) ==
    IF from >= Len(s) THEN 0
    ELSE IF s[from + 1] = 0 THEN from + 1 ELSE FirstZero(s, from + 1)

\* C7 -- readString(null) at cursor c over bytes holding a zero byte at or
\* after c returns the decoding of exactly the bytes from c up to the first
\* zero byte and leaves the cursor right after that zero byte, on both
\* backends and for every c.
C7_SentinelStopsAtFirstZero ==
    (/\ out.op = "readString" /\ out.arg[1] = "null"
     /\ out.before.offset >= 0 /\ ~out.before.isClosed
     /\ (out.before.operator = "fileHandle" => file.exists)
     /\ FirstZero(ContentOf(out.before, file), out.before.offset) > 0)
    => LET b == out.before
           z == FirstZero(ContentOf(b, file), b.offset)
           enc == IF out.arg[3] = "latin-1" THEN "latin1" ELSE out.arg[3]
       IN /\ out.status = "ok"
          /\ out.value = Str(BufToString(SubSeq(ContentOf(b, file), b.offset + 1, z - 1), enc), 0)
          /\ reader.offset = z

\* the value a read gives back for a written item, and the bytes the item takes
ExpectedOf(item) ==
    CASE item.kind = "int" -> item.value
      [] item.kind = "ascii" -> Str(item.text, 0)
      [] item.kind = "padding" -> Zeros(item.size)
LengthOf(item) ==
    CASE item.kind = "int" -> IntWidth(item.prim)
      [] item.kind = "ascii" -> Len(item.text)
      [] item.kind = "padding" -> item.size
RECURSIVE LengthOfFirst(_, _)
LengthOfFirst(log, k) == IF k = 0 THEN 0 ELSE LengthOfFirst(log, k - 1) + LengthOf(log[k])

\* C8 -- For each of the 14 integer pairs and every value v of its range,
\* negative ones included, BinaryWriter.writeX(v) followed by toBuffer() and
\* BinaryReader.readX() on a buffer-backed reader returns v.
C8_IntegerRoundTrip ==
    (/\ Len(test.log) = 1 /\ test.log[1].kind = "int" /\ Len(test.got) = 1)
    => test.got[1].status = "ok" /\ test.got[1].value = test.log[1].value

\* C9 -- Reading the materialized buffer of a BinaryWriter from cursor 0 with
\* the matching reads, in the order of the writes, gives back the written
\* values; the k-th read starts at the total length of the first k-1 writes
\* and the final cursor equals the writer's length; writing 0x12345678 as
\* UInt32LE, "OK" and one padding byte gives the bytes 78 56 34 12 4F 4B 00.
C9_SequenceRoundTrip ==
    test.phase = "done" =>
        /\ \A k \in 1..Len(test.log) :
              /\ test.got[k].status = "ok"
              /\ test.got[k].value = ExpectedOf(test.log[k])
              /\ test.got[k].at = LengthOfFirst(test.log, k - 1)
        /\ reader.offset = writerLength(writer)
        /\ (test.log = <<IntItem("UInt32LE", [hi |-> 4660, lo |-> 22136]),
                         TextItem(<<79, 75>>), PaddingItem(1)>>
               => toBuffer(writer) = <<120, 86, 52, 18, 79, 75, 0>>)

\* the range of the integers of a width and a signedness
RepresentableRange(prim) ==
    LET bits == 8 * IntWidth(prim)
    IN IF IntSigned(prim)
       THEN [lo |-> WSub(W(0), WPow2(bits - 1)), hi |-> WSub(WPow2(bits - 1), W(1))]
       ELSE [lo |-> W(0), hi |-> WSub(WPow2(bits), W(1))]

\* C10 -- Each integer write of BinaryWriter and of StreamWriter accepts a
\* value if and only if it lies in the range of its width and signedness: the
\* minimum and the maximum succeed, min - 1 and max + 1 fail with a range
\* error, and the two writers test the same bounds.
C10_IntegerRangeChecked ==
    (/\ obj \in {"writer", "stream"} /\ out.op = "writeInteger"
     /\ out.status # "closed")
    => LET prim == out.arg[1]
           v == out.arg[2]
           range == RepresentableRange(prim)
           inRange == ~WLess(v, range.lo) /\ ~WLess(range.hi, v)
       IN /\ out.status = (IF inRange THEN "ok" ELSE "range")
          /\ BinaryWriterRange(prim) = StreamWriterRange(prim)
          /\ writeInteger(<<>>, prim, v).status = out.status
          /\ streamWriteInteger(OpenStream,
                                prim, v).status = out.status

C10_Witness ==
    /\ obj = "stream" /\ out.op = "writeInteger" /\ out.status = "range"
    /\ out.arg = <<"Int8", W(-129)>> /\ stream.length = 4

(***************************************************************************)
(* Claims about the writers                                                *)
(***************************************************************************)
\* the ways a write is rejected by validation: an out-of-range integer, an
\* invalid hex string, a malformed bit string
RejectedStatuses == {"range", "node-range", "invalid", "bitstring"}

\* C11: a write rejected by validation mutates nothing: on BinaryWriter the
\* chunk list and the length are as before the call, on StreamWriter no byte
\* was handed to the stream and the cumulative length is as before.
C11_RejectedWriteMutatesNothing ==
    (obj \in {"writer", "stream"} /\ out.status \in RejectedStatuses)
    => IF obj = "writer"
       THEN /\ writer = out.before.contents
            /\ writerLength(writer) = writerLength(out.before.contents)
       ELSE /\ stream.written = out.before.written
            /\ stream.length = out.before.length
            /\ stream = out.before

C11_Witness ==
    /\ obj = "stream" /\ out.op = "writeUInt8FromBitString" /\ out.status = "bitstring"
    /\ stream.length > 0 /\ stream.state = "open"

StreamWriteOps ==
    {"writeInteger", "writeText", "writeHex", "writePadding", "writeBuffer",
     "writeUInt8FromBitsArray", "writeUInt8FromBitsBooleanArray",
     "writeUInt8FromBitString", "writeString", "writeBoolean"}

\* C12: over any sequence of StreamWriter operations the cumulative length
\* never decreases, and it changes only as the effect of a successful write
\* made while the writer is not closed.
C12_LengthOnlyGrowsByWrites ==
    (obj = "stream" /\ out.op # "idle")
    => /\ stream.length >= out.before.length
       /\ (stream.length # out.before.length
            => /\ out.op \in StreamWriteOps
               /\ out.status = "ok"
               /\ ~streamIsClosed(out.before))

\* C13: after any sequence of successful StreamWriter writes, the text writes
\* with an allocation size and the bit-array writes included, the cumulative
\* length is the number of bytes handed to the output stream.
C13_LengthIsBytesHanded ==
    (obj = "stream" /\ stream.state = "open")
    => stream.length = Len(stream.written)

\* C14: once close() has completed, every write primitive, whatever its
\* argument, fails with the stream-closed condition, writes no byte and leaves
\* the cumulative length unchanged.
C14_ClosedStreamRejectsEveryWrite ==
    (obj = "stream" /\ out.op \in StreamWriteOps /\ out.before.state = "closed")
    => /\ out.status = "closed"
       /\ stream.written = out.before.written
       /\ stream.length = out.before.length

\* C15: close() is idempotent on BinaryReader (both backends) and on
\* StreamWriter: a close() made after the instance was closed completes
\* without error, releases nothing a second time, and leaves the cursor, the
\* length and the closed flag as they were.
C15_CloseIsIdempotent ==
    /\ (obj = "reader" /\ out.op = "close" /\ out.before.isClosed)
       => /\ out.status = "ok"
          /\ file.handleCloses = out.fileWas.handleCloses
          /\ file = out.fileWas
          /\ reader.offset = out.before.offset
          /\ reader.length = out.before.length
          /\ reader.isClosed
          /\ reader = out.before
    /\ (obj = "stream" /\ out.op = "close" /\ streamIsClosed(out.before))
       => /\ out.status = "ok"
          /\ stream.closes = out.before.closes
          /\ stream.length = out.before.length
          /\ streamIsClosed(stream)
          /\ stream = out.before
    /\ (obj = "reader" => file.handleCloses <= 1)

C15_Witness ==
    /\ obj = "reader" /\ out.op = "close" /\ out.before.isClosed
    /\ reader.operator = "fileHandle" /\ file.handleCloses = 1 /\ reader.offset > 0

\* C16: BinaryWriter.toBuffer() is non-destructive and idempotent: it leaves
\* the chunk list as it was, two materializations with no write in between
\* are equal, and a write made after a materialization still appends, so every
\* buffer returned so far is the concatenation of the chunks held when it was
\* taken and these chunks are still the first chunks of the writer.
C16_ToBufferKeepsContents ==
    obj = "writer"
    => /\ (out.op = "toBuffer"
           => /\ out.status = "ok"
              /\ writer = out.before.contents
              /\ out.value = toBuffer(writer))
       /\ \A i \in 1..Len(test.got) :
             /\ test.got[i].chunks <= Len(writer)
             /\ test.got[i].buffer = Flatten(SubSeq(writer, 1, test.got[i].chunks))
             /\ \A j \in 1..Len(test.got) :
                   test.got[i].chunks = test.got[j].chunks
                   => test.got[i].buffer = test.got[j].buffer

C16_Witness ==
    /\ obj = "writer" /\ Len(test.got) = 3
    /\ test.got[1].chunks = 1 /\ test.got[2].chunks = 1 /\ test.got[3].chunks = 2
    /\ Len(test.got[1].buffer) > 0
    /\ Len(test.got[3].buffer) > Len(test.got[1].buffer)

\* the chunks a BinaryWriter call pushes, whatever the writer holds
Written(op, arg) ==
    CASE op = "writeInteger" -> writeInteger(<<>>, arg[1], arg[2]).contents
      [] op = "writeText" -> (IF arg[1] = "ascii" THEN writeASCII(<<>>, arg[2], arg[3])
                              ELSE writeText(<<>>, arg[1], arg[2], arg[3]))
      [] op = "writeHex" -> writeHex(<<>>, arg[1], arg[2]).contents
      [] op = "writePadding" -> writePadding(<<>>, arg[1], arg[2])
      [] OTHER -> <<>>

\* C17: BinaryWriter is append-only: the materialized buffer is the
\* concatenation of the chunks in write order, its byte length is the value of
\* the length getter, and the content before a write is a prefix of the
\* content after it.
C17_WriterIsAppendOnly ==
    obj = "writer"
    => /\ Len(toBuffer(writer)) = writerLength(writer)
       /\ (out.op # "idle"
           => LET old == toBuffer(out.before.contents)
                  new == toBuffer(writer)
              IN /\ Len(old) <= Len(new)
                 /\ SubSeq(new, 1, Len(old)) = old
                 /\ writer = out.before.contents \o Written(out.op, out.arg)
                 /\ new = old \o Flatten(Written(out.op, out.arg)))

C17_Witness ==
    /\ obj = "writer" /\ out.op = "writeText" /\ out.arg = <<"utf8", <<233, 65>>, 0>>
    /\ Len(writer) = 2 /\ writerLength(writer) = 7

\* C18: an existence conflict is raised before any destructive action: when
\* the target exists and replace is false, StreamWriter.toFile and
\* BinaryWriter.toFile / toFileSync fail with the already-exists condition and
\* the file is neither deleted nor modified; when replace is true,
\* StreamWriter.toFile deletes the existing file before it opens a fresh stream.
C18_ConflictBeforeDestruction ==
    (out.op \in {"toFile", "toFileSync"})
    => /\ (out.fileWas.exists /\ ~out.arg[1])
          => /\ out.status = "exists"
             /\ out.value = <<>>
             /\ file = out.fileWas
             /\ stream = out.before.stream
             /\ writer = out.before.contents
       /\ (obj = "stream" /\ out.fileWas.exists /\ out.arg[1])
          => /\ out.status = "ok"
             /\ out.value = <<"unlink", "open">>
             /\ file.exists /\ file.data = <<>>
             /\ stream = OpenStream
       /\ (~(out.fileWas.exists /\ ~out.arg[1])) => out.status = "ok"

C18_Witness ==
    /\ obj = "writer" /\ out.op = "toFileSync" /\ ~out.arg[1] /\ out.status = "exists"
    /\ Len(file.data) > 0 /\ writer # <<>>

\* C19: on a file-backed reader whose path no longer exists, every read
\* primitive fails with the file-not-found condition at its start: no byte is
\* read from the handle and the cursor is unchanged.  A buffer-backed reader
\* never raises that condition.
C19_MissingFileFailsFirst ==
    (obj = "reader" /\ out.op \in ReadOps)
    => /\ (out.before.operator = "fileHandle" /\ ~out.fileWas.exists)
          => /\ out.status = "notfound"
             /\ file.position = out.fileWas.position
             /\ file = out.fileWas
             /\ reader.offset = out.before.offset
             /\ reader = out.before
       /\ (out.before.operator = "buffer") => out.status # "notfound"
       /\ (out.fileWas.exists) => out.status # "notfound"

C19_Witness ==
    /\ obj = "reader" /\ out.op = "readUInt16LE" /\ out.status = "notfound"
    /\ reader.operator = "fileHandle" /\ ~reader.isClosed
    /\ reader.offset > 0 /\ reader.offset + 2 <= reader.length

(***************************************************************************)
(* Claims about the two backends                                           *)
(***************************************************************************)
\* a read call: the method and its arguments
RangeCalls ==
    [op : {"read", "readASCII", "readLatin1", "readUTF8"}, hasCount : BOOLEAN, n : Counts,
     mode : {""}, enc : {""}, prefix : {FALSE}]
    \cup [op : {"readHex"}, hasCount : BOOLEAN, n : Counts,
          mode : {""}, enc : {""}, prefix : BOOLEAN]
    \cup [op : {"readString"}, hasCount : {FALSE}, n : Counts,
          mode : {"count"}, enc : Encodings, prefix : {FALSE}]
    \cup [op : {"readString"}, hasCount : {FALSE}, n : {0},
          mode : {"rest", "null"}, enc : Encodings, prefix : {FALSE}]
FixedCalls ==
    [op : FixedReadOps \cup BitReadOps, hasCount : {FALSE}, n : {0},
     mode : {""}, enc : {""}, prefix : {FALSE}]

\* the call made on reader r
Invoke(call, r, f) ==
    CASE call.op = "read" -> read(r, f, call.hasCount, call.n)
      [] call.op = "readASCII" -> readASCII(r, f, call.hasCount, call.n)
      [] call.op = "readLatin1" -> readLatin1(r, f, call.hasCount, call.n)
      [] call.op = "readUTF8" -> readUTF8(r, f, call.hasCount, call.n)
      [] call.op = "readHex" ->
            readHex(r, f, call.hasCount, call.n, call.prefix, ~call.prefix)
      [] call.op = "readString" -> readString(r, f, call.mode, call.n, call.enc)
      [] call.op = "readUInt8" -> readUInt8(r, f)
      [] call.op = "readUInt16LE" -> readUInt16LE(r, f)
      [] call.op = "readUInt16BE" -> readUInt16BE(r, f)
      [] call.op = "readUInt24LE" -> readUInt24LE(r, f)
      [] call.op = "readUInt24BE" -> readUInt24BE(r, f)
      [] call.op = "readUInt32LE" -> readUInt32LE(r, f)
      [] call.op = "readUInt32BE" -> readUInt32BE(r, f)
      [] call.op = "readInt8" -> readInt8(r, f)
      [] call.op = "readInt16LE" -> readInt16LE(r, f)
      [] call.op = "readInt16BE" -> readInt16BE(r, f)
      [] call.op = "readInt24LE" -> readInt24LE(r, f)
      [] call.op = "readInt24BE" -> readInt24BE(r, f)
      [] call.op = "readInt32LE" -> readInt32LE(r, f)
      [] call.op = "readInt32BE" -> readInt32BE(r, f)
      [] call.op = "readFloatLE" -> readFloatLE(r, f)
      [] call.op = "readFloatBE" -> readFloatBE(r, f)
      [] call.op = "readDoubleLE" -> readDoubleLE(r, f)
      [] call.op = "readDoubleBE" -> readDoubleBE(r, f)
      [] call.op = "readUInt64LE" -> readUInt64LE(r, f)
      [] call.op = "readUInt64BE" -> readUInt64BE(r, f)
      [] call.op = "readInt64LE" -> readInt64LE(r, f)
      [] call.op = "readInt64BE" -> readInt64BE(r, f)
      [] call.op = "readBooleanFromByte" -> readBooleanFromByte(r, f)
      [] call.op = "readByteAsBitArray" -> readByteAsBitArray(r, f)
      [] call.op = "readByteAsBooleanArray" -> readByteAsBooleanArray(r, f)
      [] call.op = "readBitString" -> readBitString(r, f)

\* the bytes a fixed-width read consumes
WidthOf(op) ==
    CASE op \in {"readUInt16LE", "readUInt16BE", "readInt16LE", "readInt16BE"} -> 2
      [] op \in {"readUInt24LE", "readUInt24BE", "readInt24LE", "readInt24BE"} -> 3
      [] op \in {"readUInt32LE", "readUInt32BE", "readInt32LE", "readInt32BE",
                 "readFloatLE", "readFloatBE"} -> 4
      [] op \in {"readDoubleLE", "readDoubleBE", "readUInt64LE", "readUInt64BE",
                 "readInt64LE", "readInt64BE"} -> 8
      [] OTHER -> 1

\* the call stays within the content, data, of a reader whose cursor is
\* r.offset; a sentinel read does when a zero byte lies ahead of the cursor
Within(call, r, data) ==
    /\ 0 <= r.offset /\ r.offset <= r.length
    /\ (call.mode = "null") => \E i \in (r.offset + 1)..Len(data) : data[i] = 0
    /\ (call.op \in FixedReadOps \cup BitReadOps) => r.offset + WidthOf(call.op) <= r.length
    /\ (call.hasCount \/ call.mode = "count") => r.offset + call.n <= r.length

\* what the caller observes of a call: how it ended, what it returned, where
\* the cursor is
SameOutcome(a, b) ==
    /\ a.status = b.status
    /\ a.reader.offset = b.reader.offset
    /\ (a.status = "ok" => a.value = b.value)

\* the buffer-backed reader over the same bytes with the same cursor
Twin(r, f) == [fromBuffer(f.data) EXCEPT !.offset = r.offset]

\* C20: the two backends are observationally equivalent: for every read call
\* that stays within the content, a file-backed reader and a buffer-backed
\* reader over the same bytes and with the same cursor end the same way,
\* return the same value and leave the same cursor.
C20_BackendsAgree ==
    (/\ obj = "reader" /\ out.op = "idle"
     /\ reader.operator = "fileHandle" /\ ~reader.isClosed /\ file.exists)
    => \A call \in RangeCalls \cup FixedCalls :
          Within(call, reader, file.data)
          => SameOutcome(Invoke(call, reader, file), Invoke(call, Twin(reader, file), NoFile))

\* C21: StreamWriter and BinaryWriter agree on the write surface they share:
\* after every call of a sequence made on both, the bytes handed to the stream,
\* in order, are BinaryWriter.toBuffer(), StreamWriter.length is
\* BinaryWriter.length, and the call ended the same way on both.
C21_WritersAgree ==
    obj = "pair"
    => /\ stream.written = toBuffer(writer)
       /\ stream.length = writerLength(writer)
       /\ (out.op # "idle" => out.status = out.value)

(***************************************************************************)
(* Further claims about the reads and the writes                           *)
(***************************************************************************)
TextReadOps == {"readASCII", "readLatin1", "readUTF8", "readString"}

\* C22: every text read (readASCII, readLatin1, readUTF8, readString with a
\* byte count or without one), on both backends, returns the decoded text with
\* every zero byte removed: no NUL character is left in the value returned.
C22_TextReadsStripEveryNul ==
    (/\ obj = "reader" /\ out.op \in TextReadOps /\ out.status = "ok"
     /\ (out.op = "readString" => out.arg[1] # "null"))
    => \A i \in 1..Len(out.value.text) : out.value.text[i] # 0

\* the byte whose bits, most significant first, are bits
MsbFirst(bits) ==
    128 * bits[1] + 64 * bits[2] + 32 * bits[3] + 16 * bits[4]
    + 8 * bits[5] + 4 * bits[6] + 2 * bits[7] + bits[8]

Emitted ==
    IF obj = "writer" THEN Flatten(SubSeq(writer, Len(out.before.contents) + 1, Len(writer)))
    ELSE SubSeq(stream.written, Len(out.before.written) + 1, Len(stream.written))

\* the encoding of the value of a text or hex write
EncodedValue ==
    IF out.op = "writeHex" THEN HexToBytes(processHex(out.arg[1]))
    ELSE BufferFrom(out.arg[2], out.arg[1])

\* C24: a text write made with an allocation size n (writeASCII, writeLatin1,
\* writeUTF8, writeHex, on BinaryWriter and on StreamWriter), for every n >= 0,
\* n = 0 included, emits exactly n bytes: the encoded value followed by zero
\* bytes when the encoding is shorter than n, its first n bytes when longer.
\* (An allocSize of 0 in a call recorded here is the call made with n = 0.)
C24_AllocSizeFixesTheLength ==
    (/\ obj \in {"writer", "stream"} /\ out.op \in {"writeText", "writeHex"}
     /\ out.status = "ok"
     /\ (obj = "stream" => out.before.state = "open"))
    => LET n == IF out.op = "writeHex" THEN out.arg[2] ELSE out.arg[3]
           encoded == EncodedValue
       IN /\ Len(Emitted) = n
          /\ Emitted = IF Len(encoded) <= n THEN encoded \o Zeros(n - Len(encoded))
                       ELSE SubSeq(encoded, 1, n)

\* C25: writeString(value, encoding) on BinaryWriter and on StreamWriter
\* returns the number of bytes it appended: for every encoding (utf8, ascii,
\* latin1, hex) and every accepted value, hex strings with a 0x prefix or an
\* odd number of digits included, the number returned is the increase of the
\* writer's length.
C25_WriteStringReturnsBytesAppended ==
    (obj = "pair" /\ out.op = "writeString" /\ out.status = "ok")
    => LET bw == writeString(out.before.contents, out.arg[1], out.arg[2])
           sw == streamWriteString(out.before.stream, out.arg[1], out.arg[2])
       IN /\ bw.contents = writer /\ sw.stream = stream
          /\ bw.value = writerLength(writer) - writerLength(out.before.contents)
          /\ sw.value = stream.length - out.before.stream.length

\* the bytes a call in test.log was given: those of the file at the position
\* the call handed to the file handle
RaceBytes(call) == FileHandleRead(file, call.width, call.position).buffer

RECURSIVE RaceWidths(_)
RaceWidths(log) ==
    IF log = <<>> THEN 0
    ELSE (IF Head(log).state = "done" THEN Head(log).width ELSE 0) + RaceWidths(Tail(log))

\* C26: two reads made on the same file-backed BinaryReader without awaiting
\* the first race on the cursor: each call hands the cursor to the file handle
\* before it is suspended and advances it after, so every call decodes the
\* bytes at the cursor it sampled and the cursor ends advanced by the sum of
\* the widths, also when both calls sampled the same cursor. When each call
\* is awaited before the next, the second call reads where the first one
\* ended, and no two calls read at the same offset.
C26_UnawaitedReadsRaceOnTheCursor ==
    obj = "race"
    => /\ reader.offset = RaceWidths(test.log)
       /\ \A i \in 1..Len(test.log) :
             test.log[i].state = "done"
             => test.log[i].value = IF test.log[i].op = "read" THEN RaceBytes(test.log[i])
                                    ELSE Decode("UIntLE", RaceBytes(test.log[i]))
       /\ test.phase = "awaited"
          => \A i \in 2..Len(test.log) :
                test.log[i].position = test.log[i - 1].position + test.log[i - 1].width

C26_Witness ==
    /\ obj = "race" /\ test.phase = "unawaited"
    /\ file.data = <<195, 0, 195>>
    /\ Len(test.log) = 2
    /\ test.log[1].op = "readUInt8" /\ test.log[2].op = "readUInt16LE"
    /\ test.log[1].state = "done" /\ test.log[2].state = "done"
    /\ test.log[1].position = 0 /\ test.log[2].position = 0
    /\ test.log[1].value = W(195) /\ test.log[2].value = W(195)
    /\ reader.offset = 3

\* C27: a write made on a StreamWriter after close() was called and before the
\* promise of close() resolved is rejected with the stream-closed condition
\* and does not increase the length: the closed guard takes effect at the
\* call of close().
C27_WriteAfterCloseCallIsRejected ==
    (obj = "stream" /\ out.op \in StreamWriteOps /\ out.before.state = "closing")
    => /\ out.status = "closed"
       /\ stream.length = out.before.length

\* C28: readString(null) terminates for every content and every cursor, on
\* both backends, also when no zero byte lies ahead of the cursor: no call of
\* it is left in the loop that looks for the zero byte.
C28_SentinelReadTerminates ==
    (obj = "reader" /\ out.op = "readString" /\ out.arg[1] = "null")
    => out.status # "diverges"

\* the call recorded in out is a text or hex read with the count 0
CountZero ==
    /\ out.op \in {"readASCII", "readLatin1", "readUTF8", "readHex", "readString"}
    /\ IF out.op = "readString" THEN out.arg[1] = "count" /\ out.arg[2] = 0
       ELSE out.arg = <<0>>

\* C29: a text or hex read with the count 0 (readASCII(0), readLatin1(0),
\* readUTF8(0), readHex(0), readString(0)) consumes nothing, on both backends:
\* the cursor is where it was, and a text read returns the empty string; the
\* count 0 is never taken for 'the remaining bytes'.
C29_CountZeroReadsNothing ==
    (obj = "reader" /\ CountZero /\ out.status = "ok")
    => /\ reader.offset = out.before.offset
       /\ out.op # "readHex" => out.value.text = <<>>

\* C30: a fixed-width read on a buffer-backed reader that fails because fewer
\* bytes than its width remain leaves the cursor where it was.
C30_FailedReadKeepsTheCursor ==
    (/\ obj = "reader" /\ out.op \in FixedReadOps
     /\ out.before.operator = "buffer" /\ out.status = "range")
    => reader.offset = out.before.offset

====
